---------------------------- MODULE Spec2Model ----------------------------
(***************************************************************************)
(* PantryWizard backend: the recipe-generation pipeline (backend client,   *)
(* response parser, non-repetition check, retry loop) and the HTTP         *)
(* handlers over the relational store (users, pantry items, recipe         *)
(* history, daily suggestions).                                            *)
(*                                                                         *)
(* The module holds several specifications over one set of variables; each *)
(* moves one group of variables and leaves the others at their idle value. *)
(***************************************************************************)
EXTENDS Integers, Sequences, FiniteSets, TLC

VARIABLES
    sim,          \* one call of a function: its inputs and its result
    g,            \* one call of generate_recipe_for_user: the retry loop's locals
    users,        \* table users
    pantry,       \* table pantry_items
    history,      \* table recipe_history
    suggestions,  \* table daily_suggestions
    now,          \* the clock datetime.utcnow() reads
    pc,           \* per worker: the handler it is in the middle of, if any
    resp          \* the response produced by the latest step, if it produced one

vars == <<sim, g, users, pantry, history, suggestions, now, pc, resp>>
storeVars == <<users, pantry, history, suggestions, now, pc, resp>>

-----------------------------------------------------------------------------
(* Strings.  A string is a sequence of character codes: a..z are 1..26,    *)
(* space is 27, '-' is 28, and A..Z are 101..126.                          *)

\* str.lower() on one character
LowerChar(c) == IF c > 100 THEN c - 100 ELSE c

\* str.lower()
Lower(s) == [i \in 1..Len(s) |-> LowerChar(s[i])]

\* The recipe names the model draws from.
StirFryChars ==
    <<119, 9, 13, 16, 12, 5, 27, 116, 1, 14, 20, 18, 25, 27,
      119, 20, 9, 18, 28, 106, 18, 25>>                 \* "Simple Pantry Stir-Fry"
PantryBowlChars ==
    <<108, 5, 1, 12, 20, 8, 25, 27, 116, 1, 14, 20, 18, 25, 27,
      102, 15, 23, 12>>                                 \* "Healthy Pantry Bowl"
TomatoDalChars == <<120, 15, 13, 1, 20, 15, 27, 104, 1, 12>>   \* "Tomato Dal"
TomatoPieChars == <<120, 15, 13, 1, 20, 15, 27, 116, 9, 5>>    \* "Tomato Pie"
TomatoDalUpperChars ==
    <<120, 115, 113, 101, 120, 115, 27, 104, 101, 112>>        \* "TOMATO DAL"
EggCurryChars == <<105, 7, 7, 27, 103, 21, 18, 18, 25>>        \* "Egg Curry"
TomatoDipChars == <<120, 15, 13, 1, 20, 15, 27, 104, 9, 16>>   \* "Tomato Dip"
EmptyChars == << >>                                            \* ""
UnknownRecipeChars ==
    <<121, 14, 11, 14, 15, 23, 14, 27, 118, 5, 3, 9, 16, 5>>    \* "Unknown Recipe"

NameTable ==
    <<StirFryChars, PantryBowlChars, TomatoDalChars, TomatoPieChars,
      TomatoDalUpperChars, EggCurryChars, TomatoDipChars, EmptyChars,
      UnknownRecipeChars>>

NameIds == 1..Len(NameTable)

\* A name is held as its index in NameTable.
NameId(chars) == CHOOSE i \in NameIds : NameTable[i] = chars
StirFry == NameId(StirFryChars)
PantryBowl == NameId(PantryBowlChars)
TomatoDal == NameId(TomatoDalChars)
TomatoPie == NameId(TomatoPieChars)
TomatoDalUpper == NameId(TomatoDalUpperChars)
EggCurry == NameId(EggCurryChars)
TomatoDip == NameId(TomatoDipChars)
EmptyName == NameId(EmptyChars)
UnknownRecipe == NameId(UnknownRecipeChars)

-----------------------------------------------------------------------------
(* difflib.SequenceMatcher(None, a, b).ratio(), with no junk (isjunk is    *)
(* None and both strings are shorter than the autojunk length).            *)

RECURSIVE RunLen(_, _, _, _, _, _)
\* the length of the common run of a from i and b from j, inside a[..ahi], b[..bhi]
RunLen(a, b, i, j, ahi, bhi) ==
    IF i <= ahi /\ j <= bhi /\ a[i] = b[j]
    THEN 1 + RunLen(a, b, i + 1, j + 1, ahi, bhi)
    ELSE 0

\* find_longest_match: the longest block a[i..i+k-1] = b[j..j+k-1] inside
\* a[alo..ahi], b[blo..bhi]; of the longest the one starting earliest in a,
\* and of those the one starting earliest in b.
FindLongestMatch(a, b, alo, ahi, blo, bhi) ==
    LET pairs == (alo..ahi) \X (blo..bhi)
        run == [p \in pairs |-> RunLen(a, b, p[1], p[2], ahi, bhi)]
        best == IF pairs = {} THEN 0
                ELSE CHOOSE k \in {run[p] : p \in pairs} :
                         \A p \in pairs : run[p] <= k
        longest == {p \in pairs : run[p] = best}
        i == CHOOSE x \in {p[1] : p \in longest} :
                 \A p \in longest : x <= p[1]
        j == CHOOSE y \in {p[2] : p \in {q \in longest : q[1] = i}} :
                 \A p \in {q \in longest : q[1] = i} : y <= p[2]
    IN  IF best = 0 THEN <<alo, blo, 0>> ELSE <<i, j, best>>

RECURSIVE MatchingChars(_, _, _, _, _, _)
\* get_matching_blocks, summed: the block found, plus what matches to its
\* left and to its right.
MatchingChars(a, b, alo, ahi, blo, bhi) ==
    IF alo > ahi \/ blo > bhi THEN 0
    ELSE LET m == FindLongestMatch(a, b, alo, ahi, blo, bhi)
         IN  IF m[3] = 0 THEN 0
             ELSE m[3]
                  + MatchingChars(a, b, alo, m[1] - 1, blo, m[2] - 1)
                  + MatchingChars(a, b, m[1] + m[3], ahi, m[2] + m[3], bhi)

\* ratio() = 2.0 * matches / (len(a) + len(b)), and 1.0 when both are empty.
\* The ratio is kept as the fraction <<numerator, denominator>>.
Ratio(a, b) ==
    IF Len(a) + Len(b) = 0 THEN <<1, 1>>
    ELSE <<2 * MatchingChars(a, b, 1, Len(a), 1, Len(b)), Len(a) + Len(b)>>

\* The ratios of the lower-cased names, as an explicit table (@@ makes the
\* function explicit, so each ratio is computed once).
LowerRatio ==
    [p \in NameIds \X NameIds |->
        Ratio(Lower(NameTable[p[1]]), Lower(NameTable[p[2]]))] @@ << >>

\* similarity > 0.7, on fractions
ThresholdNum == 7
ThresholdDen == 10
Exceeds(r) == r[1] * ThresholdDen > ThresholdNum * r[2]
AtLeast(r) == r[1] * ThresholdDen >= ThresholdNum * r[2]


-----------------------------------------------------------------------------
(* JSON values and texts.  A value is [ty, x]: its JSON type and an opaque *)
(* content code (for a string that names a recipe, the index in NameTable).*)
(* A dict with string keys is a function from its keys.  A text is a       *)
(* sequence of tokens: "{" (lb), "}" (rb), a word of prose (w), or one     *)
(* "key": value member of an object (kv).                                  *)

Str(n) == [ty |-> "str", x |-> n]
\* a number is kept in hundredths: Num(n) is n, Centi(c) is c/100
Num(n) == [ty |-> "num", x |-> 100 * n]
Centi(c) == [ty |-> "num", x |-> c]
Dict(n) == [ty |-> "dict", x |-> n]
List(n) == [ty |-> "list", x |-> n]
Null == [ty |-> "null", x |-> 0]

LB == [t |-> "lb", k |-> "", v |-> Null]
RB == [t |-> "rb", k |-> "", v |-> Null]
W == [t |-> "w", k |-> "", v |-> Null]
KV(key, val) == [t |-> "kv", k |-> key, v |-> val]
\* a number or null written out: a JSON text by itself, and no object
JV(val) == [t |-> "json", k |-> "", v |-> val]

\* The order in which the keys of a recipe are written.
FieldOrder ==
    <<"name", "description", "ingredients", "steps", "time_minutes",
      "difficulty", "calories", "macros", "health_justification">>

FieldNames == {FieldOrder[i] : i \in 1..Len(FieldOrder)}

EmptyDict == << >>

RECURSIVE DumpMembers(_, _)
DumpMembers(d, i) ==
    IF i > Len(FieldOrder) THEN << >>
    ELSE (IF FieldOrder[i] \in DOMAIN d
          THEN <<KV(FieldOrder[i], d[FieldOrder[i]])>>
          ELSE << >>) \o DumpMembers(d, i + 1)

\* json.dumps of a dict
Dumps(d) == <<LB>> \o DumpMembers(d, 1) \o <<RB>>

\* whether json.loads accepts the text: one object, "{" members "}"
IsJsonObject(text) ==
    /\ Len(text) >= 2
    /\ text[1].t = "lb"
    /\ text[Len(text)].t = "rb"
    /\ \A i \in 2..(Len(text) - 1) : text[i].t = "kv"

\* whether json.loads accepts the text as a number or null
IsJsonScalar(text) == Len(text) = 1 /\ text[1].t = "json"

\* json.loads of a text it accepts: the last member of a key wins
Loads(text) ==
    LET members == {i \in 2..(Len(text) - 1) : text[i].t = "kv"}
        keys == {text[i].k : i \in members}
        lastOf(key) == CHOOSE i \in members :
                           /\ text[i].k = key
                           /\ \A j \in members : text[j].k = key => j <= i
    IN  [key \in keys |-> text[lastOf(key)].v]

\* re.search(r'\{.*\}', text, re.DOTALL): from the first "{" to the last "}"
\* after it; <<>> stands for no match (a match is never empty).
SearchJson(text) ==
    LET lbs == {i \in 1..Len(text) : text[i].t = "lb"}
        rbs == {i \in 1..Len(text) : text[i].t = "rb"}
        first == CHOOSE i \in lbs : \A j \in lbs : i <= j
        last == CHOOSE i \in rbs : \A j \in rbs : j <= i
    IN  IF lbs = {} \/ rbs = {} THEN << >>
        ELSE IF last < first THEN << >>
        ELSE SubSeq(text, first, last)

-----------------------------------------------------------------------------
(* The generation backends (recipe_ai.py).                                 *)

Modes == {"ollama", "local", "api", "openai"}

\* the content codes of a macros object: the zeros parse_recipe_response
\* puts in, and any object a text gives
MacrosZero == Dict(0)
MacrosGiven == Dict(1)

\* OllamaLLMClient._fallback_recipe and LocalLLMClient._fallback_recipe,
\* before json.dumps
StirFryRecipe ==
    [k \in FieldNames |->
        CASE k = "name" -> Str(StirFry)
          [] k = "description" -> Str(0)
          [] k = "ingredients" -> List(1)
          [] k = "steps" -> List(4)
          [] k = "time_minutes" -> Num(15)
          [] k = "difficulty" -> Str(0)
          [] k = "calories" -> Num(200)
          [] k = "macros" -> MacrosGiven
          [] OTHER -> Str(0)]

\* APILLMClient._fallback_recipe, before json.dumps
PantryBowlRecipe ==
    [k \in FieldNames |->
        CASE k = "name" -> Str(PantryBowl)
          [] k = "description" -> Str(0)
          [] k = "ingredients" -> List(1)
          [] k = "steps" -> List(4)
          [] k = "time_minutes" -> Num(20)
          [] k = "difficulty" -> Str(0)
          [] k = "calories" -> Num(250)
          [] k = "macros" -> MacrosGiven
          [] OTHER -> Str(0)]

\* _fallback_recipe of the variant get_llm_client selects
FallbackRecipe(mode) ==
    IF mode = "ollama" \/ mode = "local" THEN Dumps(StirFryRecipe)
    ELSE Dumps(PantryBowlRecipe)

\* What one call of a variant can meet: the call fails inside the try block
\* (or the variant cannot call at all), or the endpoint answers with a text.
FailureKinds(mode) ==
    CASE mode = "ollama" -> {"timeout", "http_error", "bad_body"}
      [] mode = "local" -> {"missing_dependency", "exception"}
      [] OTHER -> {"unconfigured", "timeout", "http_error", "bad_body"}

Failure(kind) == [kind |-> kind, text |-> << >>]
Answer(text) == [kind |-> "ok", text |-> text]

\* the tail of every variant: the JSON substring if there is one, else the text
ExtractOrText(text) ==
    IF SearchJson(text) # << >> THEN SearchJson(text) ELSE text

\* OllamaLLMClient.generate_recipe
\* a mutant: a failed call hands back text that is no recipe
OllamaGenerate_no_fallback(out) ==
    IF out.kind = "ok" THEN ExtractOrText(out.text)
    ELSE <<W>>

OllamaGenerate(out) ==
    IF out.kind = "ok" THEN ExtractOrText(out.text)
    ELSE FallbackRecipe("ollama")

\* LocalLLMClient.generate_recipe
LocalGenerate(out) ==
    IF out.kind = "missing_dependency" THEN FallbackRecipe("local")
    ELSE IF out.kind = "ok" THEN ExtractOrText(out.text)
    ELSE FallbackRecipe("local")

\* APILLMClient.generate_recipe
APIGenerate(out) ==
    IF out.kind = "unconfigured" THEN FallbackRecipe("api")
    ELSE IF out.kind = "ok" THEN ExtractOrText(out.text)
    ELSE FallbackRecipe("api")

\* a mutant: the in-process variant for every value but "ollama"
get_llm_client_local(mode) ==
    IF mode = "ollama" THEN "OllamaLLMClient" ELSE "LocalLLMClient"

\* get_llm_client, by the value of settings.LLM_MODE
get_llm_client(mode) ==
    IF mode = "ollama" THEN "OllamaLLMClient"
    ELSE IF mode = "local" THEN "LocalLLMClient"
    ELSE "APILLMClient"

\* get_llm_client().generate_recipe(prompt)
ClientGenerate(mode, out) ==
    IF get_llm_client(mode) = "OllamaLLMClient" THEN OllamaGenerate(out)
    ELSE IF get_llm_client(mode) = "LocalLLMClient" THEN LocalGenerate(out)
    ELSE APIGenerate(out)

\* The generation calls one generate_recipe issues to its endpoint or model:
\* each variant has one call site and no loop around it, and returns the
\* fallback before it when the model is not loaded (local) or the API URL or
\* key is not configured (api).
EndpointCalls(mode, out) ==
    IF get_llm_client(mode) = "OllamaLLMClient" THEN 1
    ELSE IF get_llm_client(mode) = "LocalLLMClient"
    THEN (IF out.kind = "missing_dependency" THEN 0 ELSE 1)
    ELSE (IF out.kind = "unconfigured" THEN 0 ELSE 1)

-----------------------------------------------------------------------------
(* parse_recipe_response                                                   *)

RequiredFields ==
    {"name", "description", "ingredients", "steps", "time_minutes",
     "difficulty", "calories", "macros"}

ParseOk(d) == [ok |-> TRUE, error |-> "", recipe |-> d]
ParseError(e) == [ok |-> FALSE, error |-> e, recipe |-> EmptyDict]

\* json.loads failing gives ValueError; a decoded number or null fails the
\* test "field not in recipe_data" with TypeError, which is raised on
parse_recipe_response(response_text) ==
    LET m == SearchJson(response_text)
        src == IF m # << >> THEN m ELSE response_text
    IN  IF IsJsonScalar(src) THEN ParseError("TypeError")
        ELSE IF ~IsJsonObject(src) THEN ParseError("ValueError")
        ELSE LET d == Loads(src)
             IN  IF \E f \in RequiredFields : f \notin DOMAIN d
                 THEN ParseError("ValueError")
                 ELSE IF d["macros"].ty # "dict"
                 THEN ParseOk([d EXCEPT !["macros"] = MacrosZero])
                 ELSE ParseOk(d)

-----------------------------------------------------------------------------
(* ensure_non_repetitive                                                   *)

RecentCount == 10

Max(a, b) == IF a >= b THEN a ELSE b

\* history[-10:]
LastRecent(h) == SubSeq(h, Max(1, Len(h) - RecentCount + 1), Len(h))

\* SequenceMatcher(None, candidate_name.lower(), recipe_name.lower()).ratio()
NameSimilarity(cand, name) == LowerRatio[<<cand, name>>]

RECURSIVE AnyRepeat(_, _, _)
\* the for loop: False at the first recent recipe with similarity > 0.7
AnyRepeat(recent, cand, i) ==
    IF i > Len(recent) THEN FALSE
    ELSE IF Exceeds(NameSimilarity(cand, recent[i].recipe_name)) THEN TRUE
    ELSE AnyRepeat(recent, cand, i + 1)

RECURSIVE AnyRepeat_ge(_, _, _)
AnyRepeat_ge(recent, cand, i) ==
    IF i > Len(recent) THEN FALSE
    ELSE IF AtLeast(NameSimilarity(cand, recent[i].recipe_name)) THEN TRUE
    ELSE AnyRepeat_ge(recent, cand, i + 1)

\* candidate.get("name", "")
CandidateName(candidate) ==
    IF "name" \in DOMAIN candidate THEN candidate["name"] ELSE Str(EmptyName)

\* a mutant: >= 0.7 instead of > 0.7
ensure_non_repetitive_ge(hist, candidate) ==
    IF Len(hist) = 0 THEN "True"
    ELSE IF CandidateName(candidate).ty # "str" THEN "AttributeError"
    ELSE IF AnyRepeat_ge(LastRecent(hist), CandidateName(candidate).x, 1)
    THEN "False"
    ELSE "True"

\* "True" / "False", or "AttributeError" when the name is no string
\* (.lower() of a number, a list or null)
ensure_non_repetitive(hist, candidate) ==
    IF Len(hist) = 0 THEN "True"
    ELSE IF CandidateName(candidate).ty # "str" THEN "AttributeError"
    ELSE IF AnyRepeat(LastRecent(hist), CandidateName(candidate).x, 1)
    THEN "False"
    ELSE "True"

-----------------------------------------------------------------------------
(* build_recipe_prompt and generate_recipe_for_user                        *)

\* A prompt is a sequence of parts: the base block build_recipe_prompt
\* formats (of its inputs the model keeps the pantry names and the recent
\* titles; the profile and the preferences are templated in the same way),
\* then the instructions the retry loop appends.
BasePart(pantry_names, titles) ==
    [kind |-> "base", pantry |-> pantry_names, titles |-> titles]

DifferentPart == [kind |-> "different", pantry |-> << >>, titles |-> << >>]

build_recipe_prompt(pantry_names, recent_titles) ==
    <<BasePart(pantry_names, recent_titles)>>

max_attempts == 3

\* [r.recipe_name for r in history[-10:]]
RecentTitles(hist) ==
    [i \in 1..Len(LastRecent(hist)) |-> LastRecent(hist)[i].recipe_name]

\* The locals of generate_recipe_for_user as the loop is entered.  log keeps,
\* per backend call, what was sent, what came back and what became of it.
GenStart(mode, pantry_names, hist, avoid) ==
    [pc |-> "loop",
     mode |-> mode,
     history |-> hist,
     avoid_repeats |-> avoid,
     attempt |-> 0,
     prompt |-> build_recipe_prompt(pantry_names, RecentTitles(hist)),
     calls |-> 0,
     recipe_data |-> EmptyDict,
     error |-> "",
     log |-> << >>]

LogEntry(s, out, text, recipe, verdict) ==
    [prompt |-> s.prompt, kind |-> out.kind, text |-> text,
     recipe |-> recipe, verdict |-> verdict,
     variant |-> get_llm_client(s.mode),
     requests |-> EndpointCalls(s.mode, out)]

\* a mutant: the instruction replaces what was appended before
NextPrompt_rebuilt(prompt, attempt) ==
    IF attempt < max_attempts - 1 THEN <<prompt[1], DifferentPart>> ELSE prompt

\* if attempt < max_attempts - 1: prompt += "... DIFFERENT recipe ..."
NextPrompt(prompt, attempt) ==
    IF attempt < max_attempts - 1 THEN Append(prompt, DifferentPart) ELSE prompt

\* a mutant: one attempt more (range(max_attempts + 1))
Attempt_one_more(s, out) ==
    LET response_text == ClientGenerate(s.mode, out)
        parsed == parse_recipe_response(response_text)
        check == IF ~s.avoid_repeats \/ Len(s.history) = 0 THEN "True"
                 ELSE ensure_non_repetitive(s.history, parsed.recipe)
        last == s.attempt + 1 >= max_attempts + 1
    IN  IF ~parsed.ok \/ check = "AttributeError"
        THEN [s EXCEPT !.pc = "raised", !.error = "ValueError",
                       !.calls = @ + 1,
                       !.log = Append(@, LogEntry(s, out, response_text,
                                                  EmptyDict, "raised"))]
        ELSE IF check = "True"
        THEN [s EXCEPT !.pc = "returned", !.calls = @ + 1,
                       !.recipe_data = parsed.recipe,
                       !.log = Append(@, LogEntry(s, out, response_text,
                                                  parsed.recipe, "accepted"))]
        ELSE [s EXCEPT !.pc = IF last THEN "returned" ELSE "loop",
                       !.attempt = @ + 1,
                       !.calls = @ + 1,
                       !.recipe_data = parsed.recipe,
                       !.log = Append(@, LogEntry(s, out, response_text,
                                                  parsed.recipe, "rejected"))]

\* One iteration of the for loop, the backend's call meeting `out`:
\*   response_text = client.generate_recipe(prompt)
\*   recipe_data = parse_recipe_response(response_text)      (may raise)
\*   if not avoid_repeats or not history or ensure_non_repetitive(...):
\*       return recipe_data
\*   if attempt < max_attempts - 1: prompt += "... DIFFERENT recipe ..."
\* and, after the last iteration, return recipe_data.
Attempt(s, out) ==
    LET response_text == ClientGenerate(s.mode, out)
        parsed == parse_recipe_response(response_text)
        check == IF ~s.avoid_repeats \/ Len(s.history) = 0 THEN "True"
                 ELSE ensure_non_repetitive(s.history, parsed.recipe)
        last == s.attempt + 1 >= max_attempts
    IN  IF ~parsed.ok
        THEN [s EXCEPT !.pc = "raised", !.error = parsed.error,
                       !.calls = @ + 1,
                       !.log = Append(@, LogEntry(s, out, response_text,
                                                  EmptyDict, "raised"))]
        ELSE IF check = "AttributeError"
        THEN [s EXCEPT !.pc = "raised", !.error = check,
                       !.calls = @ + 1,
                       !.recipe_data = parsed.recipe,
                       !.log = Append(@, LogEntry(s, out, response_text,
                                                  parsed.recipe, "raised"))]
        ELSE IF check = "True"
        THEN [s EXCEPT !.pc = "returned", !.calls = @ + 1,
                       !.recipe_data = parsed.recipe,
                       !.log = Append(@, LogEntry(s, out, response_text,
                                                  parsed.recipe, "accepted"))]
        ELSE [s EXCEPT !.pc = IF last THEN "returned" ELSE "loop",
                       !.attempt = @ + 1,
                       !.prompt = NextPrompt(@, s.attempt),
                       !.calls = @ + 1,
                       !.recipe_data = parsed.recipe,
                       !.log = Append(@, LogEntry(s, out, response_text,
                                                  parsed.recipe, "rejected"))]

-----------------------------------------------------------------------------
(* What the model's backend answers.                                       *)

\* a recipe with all nine fields
FullRecipe(n) == [StirFryRecipe EXCEPT !["name"] = Str(n)]

Without(d, key) == [k \in (DOMAIN d) \ {key} |-> d[k]]

ResponseTexts ==
    { <<W>> \o Dumps(FullRecipe(TomatoDal)) \o <<W>>,   \* prose around the JSON
      Dumps(FullRecipe(EggCurry)),
      Dumps(Without(FullRecipe(TomatoPie), "health_justification")),
      Dumps(Without(FullRecipe(EggCurry), "steps")),
      Dumps([FullRecipe(TomatoDal) EXCEPT !["macros"] = Str(0)]),
      Dumps([FullRecipe(EggCurry) EXCEPT !["name"] = Num(0)]),
      Dumps(FullRecipe(EggCurry)) \o <<W>> \o Dumps(FullRecipe(EggCurry)),
      <<W, LB, KV("name", Str(EggCurry))>>,             \* never closed
      <<W, W>>,                                         \* no JSON at all
      <<JV(Num(5))>>,                                   \* the JSON text 5
      << >> }

Outcomes(mode) ==
    {Failure(k) : k \in FailureKinds(mode)} \cup {Answer(t) : t \in ResponseTexts}

-----------------------------------------------------------------------------------------------------------------------------------------------------
(* The store and the clock.                                                *)

\* A datetime is [d, h]: the UTC day and the time of day, 0 for midnight
\* and 1 for a later time of the same day.
At(d, h) == [d |-> d, h |-> h]
Epoch == At(0, 0)
Earlier(a, b) == a.d < b.d \/ (a.d = b.d /\ a.h < b.h)
NotEarlier(a, b) == ~Earlier(a, b)

\* t.replace(hour=0, minute=0, second=0, microsecond=0)
Midnight(t) == At(t.d, 0)

\* t + timedelta(days=n)
PlusDays(t, n) == At(t.d + n, t.h)

\* The primary key the store gives a new row: one more than the largest in
\* the table (SQLite's rowid for INTEGER PRIMARY KEY).
NextId(table) ==
    IF table = {} THEN 1
    ELSE 1 + (CHOOSE i \in {r.id : r \in table} : \A r \in table : r.id <= i)

\* Each worker process handles one request at a time; a handler that reads,
\* then calls out or computes, then writes, is left and re-entered in between.
Workers == {"w1", "w2"}

IdleWorker ==
    [at |-> "idle", user_id |-> 0, email |-> "", password |-> "",
     pantry_items |-> << >>, hist |-> << >>]

\* a new request goes to an idle worker; the workers being alike, the first
IdleWorkerFor(w) ==
    /\ pc[w].at = "idle"
    /\ w = "w2" => pc["w1"].at # "idle"

NoResponse == [op |-> "none"]

HistRow(n) == [recipe_name |-> n]

SimIdle == [history |-> << >>, candidate |-> EmptyDict, out |-> "idle"]
GenIdle == [GenStart("ollama", << >>, << >>, TRUE) EXCEPT !.pc = "idle"]

\* the store holding the given users and nothing else, at the epoch, with
\* no request under way
StoreWith(us) ==
    /\ users = us
    /\ pantry = {}
    /\ history = {}
    /\ suggestions = {}
    /\ now = Epoch
    /\ pc = [w \in Workers |-> IdleWorker]
    /\ resp = NoResponse

StoreIdle == StoreWith({})

\* the clock moves on to a later one of the instants a specification samples
Tick(instants) ==
    /\ \E t \in instants : Earlier(now, t) /\ now' = t
    /\ resp' = NoResponse
    /\ UNCHANGED <<sim, g, users, pantry, history, suggestions, pc>>

-----------------------------------------------------------------------------
(* app/auth.py: password hashing and tokens.                               *)

get_password_hash(password) == <<"hash", password>>
verify_password(password, hash) == hash = get_password_hash(password)
create_access_token(sub) == [access_token |-> <<"jwt", sub>>, token_type |-> "bearer"]

-----------------------------------------------------------------------------
(* routers/users.py                                                        *)

Emails == {"a@x.io", "b@x.io"}
Passwords == {"pw1", "pw2"}

UserRow(id, email, password) ==
    [id |-> id, email |-> email, password_hash |-> get_password_hash(password)]

RegisterResponse(email, status, detail, body) ==
    [op |-> "register", email |-> email, status |-> status,
     detail |-> detail, body |-> body]

\* register, up to the duplicate check: the SELECT by email and, when it
\* finds a user, the 400
RegisterSelect(w, email, password) ==
    /\ IdleWorkerFor(w)
    /\ IF \E u \in users : u.email = email
       THEN /\ resp' = RegisterResponse(email, 400, "Email already registered",
                                        << >>)
            /\ pc' = pc
       ELSE /\ pc' = [pc EXCEPT ![w] = [IdleWorker EXCEPT !.at = "register",
                                            !.email = email,
                                            !.password = password]]
            /\ resp' = NoResponse
    /\ UNCHANGED <<sim, g, users, pantry, history, suggestions, now>>

\* register, from the hashing on: the INSERT and the commit, which the
\* unique index on users.email fails with an IntegrityError nothing catches
\* (the framework answers 500), and the token
RegisterInsert(w) ==
    /\ pc[w].at = "register"
    /\ IF \E u \in users : u.email = pc[w].email
       THEN /\ users' = users
            /\ resp' = RegisterResponse(pc[w].email, 500,
                                        "Internal Server Error", << >>)
       ELSE /\ users' = users \cup
                        {UserRow(NextId(users), pc[w].email, pc[w].password)}
            /\ resp' = RegisterResponse(pc[w].email, 201, "",
                                        create_access_token(NextId(users)))
    /\ pc' = [pc EXCEPT ![w] = IdleWorker]
    /\ UNCHANGED <<sim, g, pantry, history, suggestions, now>>

LoginResponse(email, password, status, detail, body) ==
    [op |-> "login", email |-> email, password |-> password,
     status |-> status, detail |-> detail, body |-> body]

\* a mutant: the password is not verified
Login_unverified(email, password) ==
    /\ IF \E u \in users : u.email = email
       THEN \E u \in users :
               /\ u.email = email
               /\ resp' = LoginResponse(email, password, 200, "",
                                        create_access_token(u.id))
       ELSE resp' = LoginResponse(email, password, 401,
                                  "Incorrect email or password", << >>)
    /\ UNCHANGED <<sim, g, users, pantry, history, suggestions, now, pc>>

\* login
Login(email, password) ==
    /\ IF \E u \in users : u.email = email
                           /\ verify_password(password, u.password_hash)
       THEN \E u \in users :
               /\ u.email = email
               /\ resp' = LoginResponse(email, password, 200, "",
                                        create_access_token(u.id))
       ELSE resp' = LoginResponse(email, password, 401,
                                  "Incorrect email or password", << >>)
    /\ UNCHANGED <<sim, g, users, pantry, history, suggestions, now, pc>>

-----------------------------------------------------------------------------
(* app/utils.py: estimate_calories_from_ingredients, and the ingredient    *)
(* lists of the model's recipes.                                           *)

\* round(): to the nearest whole number of den-ths, a tie to the even one
RoundHalfEven(num, den) ==
    LET q == num \div den
        r == num % den
    IN  IF 2 * r < den THEN q
        ELSE IF 2 * r > den THEN q + 1
        ELSE IF q % 2 = 0 THEN q ELSE q + 1

\* an ingredient: a dict with or without a "name"; its "name", if any, is a
\* string (name_str) or null, and its "amount", if any, is a string
\* (amount_str) or a number
Ing(chars) ==
    [named |-> TRUE, name_str |-> TRUE, name |-> chars, amount_str |-> TRUE]
IngNoName ==
    [named |-> FALSE, name_str |-> TRUE, name |-> << >>, amount_str |-> TRUE]
IngNumAmount(chars) ==
    [named |-> TRUE, name_str |-> TRUE, name |-> chars, amount_str |-> FALSE]
IngNullName ==
    [named |-> TRUE, name_str |-> FALSE, name |-> << >>, amount_str |-> TRUE]

\* ing.get("name", "").lower()
IngName(ing) == Lower(IF ing.named THEN ing.name ELSE << >>)

AvailableChars ==
    <<101, 22, 1, 9, 12, 1, 2, 12, 5, 27, 9, 14, 7, 18, 5, 4, 9, 5, 14, 20, 19>>    \* "Available ingredients"
RiceChars == <<18, 9, 3, 5>>                  \* "rice"
RiceCapChars == <<118, 9, 3, 5>>              \* "Rice"
ChickenRiceChars ==
    <<3, 8, 9, 3, 11, 5, 14, 27, 18, 9, 3, 5>>      \* "chicken rice"
TofuChars == <<20, 15, 6, 21>>                   \* "tofu"
EggChars == <<5, 7, 7>>                       \* "egg"
OilChars == <<15, 9, 12>>                     \* "oil"
MilkChars == <<13, 9, 12, 11>>                \* "milk"
OnionChars == <<15, 14, 9, 15, 14>>           \* "onion"
PastaChars == <<16, 1, 19, 20, 1>>            \* "pasta"

\* the lists a "ingredients" value of the model stands for, by content code
IngredientLists ==
    [n \in 0..6 |->
        CASE n = 0 -> << >>
          [] n = 1 -> <<Ing(AvailableChars)>>
          [] n = 2 -> <<Ing(RiceChars), Ing(EggChars)>>
          [] n = 3 -> <<Ing(RiceCapChars), Ing(ChickenRiceChars), Ing(TofuChars),
                        IngNoName>>
          [] n = 4 -> <<Ing(RiceChars), IngNumAmount(EggChars)>>
          [] n = 5 -> <<Ing(OilChars), Ing(MilkChars), Ing(OnionChars),
                        Ing(PastaChars), Ing(TofuChars), Ing(EggChars),
                        Ing(RiceChars)>>
          [] n = 6 -> <<Ing(RiceChars), IngNullName, Ing(EggChars)>>]

Ingredients(v) == IngredientLists[v.x]

calorie_map ==
    <<[key |-> <<3, 8, 9, 3, 11, 5, 14>>, cal |-> 165],
      [key |-> <<2, 5, 5, 6>>, cal |-> 250],
      [key |-> <<16, 15, 18, 11>>, cal |-> 242],
      [key |-> <<6, 9, 19, 8>>, cal |-> 206],
      [key |-> <<18, 9, 3, 5>>, cal |-> 130],
      [key |-> <<16, 1, 19, 20, 1>>, cal |-> 131],
      [key |-> <<16, 15, 20, 1, 20, 15>>, cal |-> 77],
      [key |-> <<15, 14, 9, 15, 14>>, cal |-> 40],
      [key |-> <<20, 15, 13, 1, 20, 15>>, cal |-> 18],
      [key |-> <<3, 1, 18, 18, 15, 20>>, cal |-> 41],
      [key |-> <<2, 18, 15, 3, 3, 15, 12, 9>>, cal |-> 34],
      [key |-> <<19, 16, 9, 14, 1, 3, 8>>, cal |-> 23],
      [key |-> <<5, 7, 7>>, cal |-> 70],
      [key |-> <<3, 8, 5, 5, 19, 5>>, cal |-> 113],
      [key |-> <<13, 9, 12, 11>>, cal |-> 42],
      [key |-> <<15, 9, 12>>, cal |-> 884],
      [key |-> <<2, 21, 20, 20, 5, 18>>, cal |-> 717]>>

\* key in name
Contains(key, name) ==
    \E i \in 0..(Len(name) - Len(key)) : SubSeq(name, i + 1, i + Len(key)) = key

\* what one ingredient adds, in hundredths: half the calories of the first
\* key of calorie_map its name contains
IngredientCalories(ing) ==
    LET name == IngName(ing)
        hits == {k \in 1..Len(calorie_map) : Contains(calorie_map[k].key, name)}
        first == CHOOSE k \in hits : \A j \in hits : k <= j
    IN  IF hits = {} THEN 0 ELSE 50 * calorie_map[first].cal

RECURSIVE SumCalories(_)
SumCalories(ingredients) ==
    IF ingredients = << >> THEN 0
    ELSE IngredientCalories(Head(ingredients)) + SumCalories(Tail(ingredients))

\* ingredient.get("name", "").lower() of a name that is null, and
\* ingredient.get("amount", "").lower() of an amount that is a number:
\* AttributeError
EstimateRaises(ingredients) ==
    \E i \in DOMAIN ingredients :
        ~ingredients[i].name_str \/ ~ingredients[i].amount_str

\* the estimate of ingredients it does not raise on, in hundredths
estimate_calories_from_ingredients(ingredients) ==
    LET matched == SumCalories(ingredients)
        total_calories == IF matched = 0 THEN 5000 * Len(ingredients) ELSE matched
    IN  100 * RoundHalfEven(total_calories, 100)

-----------------------------------------------------------------------------
(* routers/recipes.py: save_recipe                                         *)

\* the two users the specifications of the recipe and history routes start
\* with, each holding a token that get_current_user resolves to them
TwoUsers == {UserRow(1, "a@x.io", "pw1"), UserRow(2, "b@x.io", "pw2")}

\* not calories
Falsy(v) == v.ty = "null" \/ (v.ty = "num" /\ v.x = 0)

SavedCalories(recipe_json, calories) ==
    LET c1 == IF Falsy(calories) /\ "calories" \in DOMAIN recipe_json
              THEN recipe_json["calories"] ELSE calories
    IN  IF Falsy(c1) /\ "ingredients" \in DOMAIN recipe_json
        THEN Centi(estimate_calories_from_ingredients(
                       Ingredients(recipe_json["ingredients"])))
        ELSE c1

\* the name of a recipe_json whose name, if any, is a string
\* the estimate is asked for, and raises
SaveEstimateRaises(recipe_json, calories) ==
    LET c1 == IF Falsy(calories) /\ "calories" \in DOMAIN recipe_json
              THEN recipe_json["calories"] ELSE calories
    IN  /\ Falsy(c1)
        /\ "ingredients" \in DOMAIN recipe_json
        /\ EstimateRaises(Ingredients(recipe_json["ingredients"]))

SavedName(recipe_json) ==
    IF "name" \in DOMAIN recipe_json /\ recipe_json["name"].ty = "str"
    THEN recipe_json["name"].x ELSE UnknownRecipe

HistoryRow(id, user_id, recipe_json, calories, t) ==
    [id |-> id, user_id |-> user_id, recipe_name |-> SavedName(recipe_json),
     recipe_json |-> Dumps(recipe_json),
     calories |-> SavedCalories(recipe_json, calories), created_at |-> t]

\* recipe_json.get("name", "Unknown Recipe") is None: the name is there and
\* is null, which the NOT NULL column recipe_name refuses
NullName(recipe_json) ==
    "name" \in DOMAIN recipe_json /\ recipe_json["name"].ty = "null"

\* POST /recipes/save.  The response record keeps the submitted recipe_json
\* and calories next to the answer.  An AttributeError of the estimate and a
\* null name, which fails the INSERT (IntegrityError), are caught by
\* nothing: the request ends with a 500 and no row.
SaveRecipe(u, recipe_json, calories) ==
    LET row == HistoryRow(NextId(history), u.id, recipe_json, calories, now)
    IN  /\ IF SaveEstimateRaises(recipe_json, calories) \/ NullName(recipe_json)
           THEN /\ history' = history
                /\ resp' = [op |-> "save", user_id |-> u.id, status |-> 500,
                            recipe_json |-> recipe_json, calories |-> calories,
                            body |-> << >>]
           ELSE /\ history' = history \cup {row}
                /\ resp' = [op |-> "save", user_id |-> u.id, status |-> 201,
                            recipe_json |-> recipe_json, calories |-> calories,
                            body |-> [id |-> row.id,
                                      recipe_name |-> row.recipe_name,
                                      calories |-> row.calories,
                                      created_at |-> row.created_at]]
        /\ UNCHANGED <<sim, g, users, pantry, suggestions, now, pc>>

-----------------------------------------------------------------------------
(* routers/history.py                                                      *)

WeekDays == 7
MonthDays == 30
TopCount == 5

\* the orders in which a query can return the rows of a set
Orderings(S) ==
    {s \in [1..Cardinality(S) -> S] :
        \A i, j \in 1..Cardinality(S) : i # j => s[i] # s[j]}

\* ORDER BY created_at DESC: rows of one created_at come in any order
NewestFirst(S) ==
    {s \in Orderings(S) :
        \A i \in 1..(Cardinality(S) - 1) :
            NotEarlier(s[i].created_at, s[i + 1].created_at)}

\* the rows of a user created at or after the instant `since`
RowsSince(u, since) ==
    {r \in history : r.user_id = u.id /\ NotEarlier(r.created_at, since)}

RowsOf(u) == {r \in history : r.user_id = u.id}

\* a mutant: 'month' filters by the window of 'week'
PeriodRows_month_as_week(u, period) ==
    CASE period = "week" -> RowsSince(u, PlusDays(now, -WeekDays))
      [] period = "month" -> RowsSince(u, PlusDays(now, -WeekDays))
      [] OTHER -> RowsOf(u)

PeriodRows(u, period) ==
    CASE period = "week" -> RowsSince(u, PlusDays(now, -WeekDays))
      [] period = "month" -> RowsSince(u, PlusDays(now, -MonthDays))
      [] OTHER -> RowsOf(u)

HistoryItem(r) ==
    [id |-> r.id, recipe_name |-> r.recipe_name,
     recipe_json |-> Loads(r.recipe_json), calories |-> r.calories,
     created_at |-> r.created_at]

HistoryResponse(u, period, rows) ==
    [op |-> "history", user_id |-> u.id, period |-> period, status |-> 200,
     body |-> [i \in DOMAIN rows |-> HistoryItem(rows[i])]]

\* a mutant: the rows come in any order
GetHistory_unordered(u, period) ==
    /\ \E rows \in Orderings(PeriodRows(u, period)) :
          resp' = HistoryResponse(u, period, rows)
    /\ UNCHANGED <<sim, g, users, pantry, history, suggestions, now, pc>>

\* GET /history
GetHistory(u, period) ==
    /\ \E rows \in NewestFirst(PeriodRows(u, period)) :
          resp' = HistoryResponse(u, period, rows)
    /\ UNCHANGED <<sim, g, users, pantry, history, suggestions, now, pc>>

\* item.calories or 0, in hundredths
CaloriesOrZero(r) == IF r.calories.ty = "num" THEN r.calories.x ELSE 0

RECURSIVE SumOver(_)
SumOver(S) ==
    IF S = {} THEN 0
    ELSE LET r == CHOOSE x \in S : TRUE
         IN  CaloriesOrZero(r) + SumOver(S \ {r})

\* the ingredients before the first one whose name is null: on that one
\* ing.get("name", "").lower() raises AttributeError, and `except: continue`
\* leaves the rest of the row uncounted
BeforeRaise(items) ==
    LET raising == {i \in 1..Len(items) : ~items[i].name_str}
    IN  IF raising = {} THEN items
        ELSE SubSeq(items, 1, (CHOOSE i \in raising : \A j \in raising : i <= j) - 1)

\* the non-empty lower-cased ingredient names of one row that are counted,
\* in order
NonEmpty(name) == name # << >>
RowIngredientNames(r) ==
    LET d == Loads(r.recipe_json)
        items == IF "ingredients" \in DOMAIN d
                 THEN BeforeRaise(Ingredients(d["ingredients"]))
                 ELSE << >>
    IN  SelectSeq([i \in 1..Len(items) |-> IngName(items[i])], NonEmpty)

RECURSIVE AllIngredientNames(_, _)
AllIngredientNames(rows, i) ==
    IF i > Len(rows) THEN << >>
    ELSE RowIngredientNames(rows[i]) \o AllIngredientNames(rows, i + 1)

\* sorted(ingredient_counts.items(), key=count, reverse=True)[:5]: the names
\* by falling count, names of one count in the order they were first met
TopIngredients(names) ==
    LET firsts == {i \in 1..Len(names) : \A j \in 1..(i - 1) : names[j] # names[i]}
        count(i) == Cardinality({j \in 1..Len(names) : names[j] = names[i]})
        rank(i) == 1 + Cardinality({j \in firsts :
                        \/ count(j) > count(i)
                        \/ (count(j) = count(i) /\ j < i)})
        kept == IF Cardinality(firsts) < TopCount THEN Cardinality(firsts)
                ELSE TopCount
    IN  [k \in 1..kept |->
            LET i == CHOOSE f \in firsts : rank(f) = k
            IN  [name |-> names[i], count |-> count(i)]]

\* a mutant: the score is cut off after one decimal place
variety_score_truncated(unique_recipes, meals_count) ==
    IF meals_count > 0 THEN (1000 * unique_recipes) \div meals_count ELSE 0

\* round(unique_recipes / meals_count * 100, 1), in tenths
variety_score(unique_recipes, meals_count) ==
    IF meals_count > 0
    THEN RoundHalfEven(1000 * unique_recipes, meals_count)
    ELSE 0

\* the report over the rows of the last `days` days, which the query returns
\* in any order; the rounded numbers are kept in tenths
ReportOver(u, days) ==
    LET S == RowsSince(u, PlusDays(now, -days))
        total_calories == SumOver(S)
        meals_count == Cardinality(S)
        unique_recipes == Cardinality({r.recipe_name : r \in S})
    IN  /\ \E history_items \in Orderings(S) :
              resp' = [op |-> "report", user_id |-> u.id, status |-> 200,
                       body |->
                         [total_calories |-> RoundHalfEven(total_calories, 10),
                          variety_score |->
                              variety_score(unique_recipes, meals_count),
                          top_ingredients |->
                              TopIngredients(AllIngredientNames(history_items, 1)),
                          meals_count |-> meals_count,
                          avg_calories_per_meal |->
                              IF meals_count > 0
                              THEN RoundHalfEven(total_calories, 10 * meals_count)
                              ELSE 0]]
        /\ UNCHANGED <<sim, g, users, pantry, history, suggestions, now, pc>>

\* a mutant: the report covers the last 30 days
WeeklyReport_month(u) == ReportOver(u, MonthDays)

\* GET /history/reports/weekly
WeeklyReport(u) == ReportOver(u, WeekDays)

-----------------------------------------------------------------------------
(* routers/pantry.py                                                       *)

PantryRow(id, user_id, item, t) ==
    [id |-> id, user_id |-> user_id, name |-> item.name,
     quantity |-> item.quantity, unit |-> item.unit, created_at |-> t]

\* a mutant: the item is answered and not stored
AddPantry_not_stored(u, item) ==
    LET row == PantryRow(NextId(pantry), u.id, item, now)
    IN  /\ pantry' = pantry
        /\ resp' = [op |-> "pantry_add", user_id |-> u.id, status |-> 201,
                    item |-> item, body |-> row]
        /\ UNCHANGED <<sim, g, users, history, suggestions, now, pc>>

\* POST /pantry.  The response record keeps the submitted item next to the
\* answer.
AddPantry(u, item) ==
    LET row == PantryRow(NextId(pantry), u.id, item, now)
    IN  /\ pantry' = pantry \cup {row}
        /\ resp' = [op |-> "pantry_add", user_id |-> u.id, status |-> 201,
                    item |-> item, body |-> row]
        /\ UNCHANGED <<sim, g, users, history, suggestions, now, pc>>

\* an optional field of a request body: None, or a value
None == << >>
Some(v) == <<v>>
OrElse(opt, v) == IF opt = None THEN v ELSE opt[1]

\* the item with the id that the user owns, as a set: empty or that item
OwnItem(u, item_id) == {i \in pantry : i.id = item_id /\ i.user_id = u.id}

\* a mutant: the items of every user
ListPantry_all(u) ==
    /\ \E items \in Orderings(pantry) :
          resp' = [op |-> "pantry_list", user_id |-> u.id, status |-> 200,
                   body |-> items]
    /\ UNCHANGED <<sim, g, users, pantry, history, suggestions, now, pc>>

\* GET /pantry: the user's items, in whatever order the query returns them
ListPantry(u) ==
    /\ \E items \in Orderings({i \in pantry : i.user_id = u.id}) :
          resp' = [op |-> "pantry_list", user_id |-> u.id, status |-> 200,
                   body |-> items]
    /\ UNCHANGED <<sim, g, users, pantry, history, suggestions, now, pc>>

PantryChangeResponse(op, u, item_id, status, detail, body) ==
    [op |-> op, user_id |-> u.id, item_id |-> item_id, status |-> status,
     detail |-> detail, body |-> body]

\* the answer of PUT /pantry/{item_id}; the record keeps the request body
\* next to the answer
PantryUpdateResponse(u, item_id, item_data, status, detail, body) ==
    [op |-> "pantry_update", user_id |-> u.id, item_id |-> item_id,
     item_data |-> item_data, status |-> status, detail |-> detail,
     body |-> body]

\* a mutant: the quantity is assigned whether or not it was supplied
UpdatePantry_quantity_unguarded(u, item_id, item_data) ==
    /\ IF OwnItem(u, item_id) = {}
       THEN /\ pantry' = pantry
            /\ resp' = PantryUpdateResponse(u, item_id, item_data, 404,
                                            "Pantry item not found", << >>)
       ELSE \E item \in OwnItem(u, item_id) :
               LET updated == [item EXCEPT
                                  !.name = OrElse(item_data.name, @),
                                  !.quantity = OrElse(item_data.quantity, 0),
                                  !.unit = OrElse(item_data.unit, @)]
               IN  /\ pantry' = (pantry \ {item}) \cup {updated}
                   /\ resp' = PantryUpdateResponse(u, item_id, item_data,
                                                   200, "", updated)
    /\ UNCHANGED <<sim, g, users, history, suggestions, now, pc>>

\* PUT /pantry/{item_id}
UpdatePantry(u, item_id, item_data) ==
    /\ IF OwnItem(u, item_id) = {}
       THEN /\ pantry' = pantry
            /\ resp' = PantryUpdateResponse(u, item_id, item_data, 404,
                                            "Pantry item not found", << >>)
       ELSE \E item \in OwnItem(u, item_id) :
               LET updated == [item EXCEPT
                                  !.name = OrElse(item_data.name, @),
                                  !.quantity = OrElse(item_data.quantity, @),
                                  !.unit = OrElse(item_data.unit, @)]
               IN  /\ pantry' = (pantry \ {item}) \cup {updated}
                   /\ resp' = PantryUpdateResponse(u, item_id, item_data,
                                                   200, "", updated)
    /\ UNCHANGED <<sim, g, users, history, suggestions, now, pc>>

\* a mutant: the item is looked up by its id alone
DeletePantry_any_owner(u, item_id) ==
    /\ IF \A i \in pantry : i.id # item_id
       THEN /\ pantry' = pantry
            /\ resp' = PantryChangeResponse("pantry_delete", u, item_id, 404,
                                            "Pantry item not found", << >>)
       ELSE /\ pantry' = {i \in pantry : i.id # item_id}
            /\ resp' = PantryChangeResponse("pantry_delete", u, item_id, 204,
                                            "", << >>)
    /\ UNCHANGED <<sim, g, users, history, suggestions, now, pc>>

\* DELETE /pantry/{item_id}
DeletePantry(u, item_id) ==
    /\ IF OwnItem(u, item_id) = {}
       THEN /\ pantry' = pantry
            /\ resp' = PantryChangeResponse("pantry_delete", u, item_id, 404,
                                            "Pantry item not found", << >>)
       ELSE /\ pantry' = pantry \ OwnItem(u, item_id)
            /\ resp' = PantryChangeResponse("pantry_delete", u, item_id, 204,
                                            "", << >>)
    /\ UNCHANGED <<sim, g, users, history, suggestions, now, pc>>

-----------------------------------------------------------------------------
(* image_gen.py.  A dish name is a string, held here as its characters     *)
(* ('/' is 29, '.' is 30 and '_' is 31), or a value that is no string.  A  *)
(* path is held in three parts: directory, file name, extension.           *)

DishStr(chars) == [ty |-> "str", chars |-> chars]
DishNum == [ty |-> "num", chars |-> << >>]

Returned(path, saved) == [raised |-> FALSE, error |-> "", path |-> path, saved |-> saved]
Raised(error) == [raised |-> TRUE, error |-> error, path |-> << >>, saved |-> FALSE]

PlaceholderChars == <<16, 12, 1, 3, 5, 8, 15, 12, 4, 5, 18>>       \* "placeholder"
ImagePath(file) == [dir |-> "/static/images/", file |-> file, ext |-> ".jpg"]

\* f"/static/images/placeholder.jpg"
get_placeholder_image(dish_name) == ImagePath(PlaceholderChars)

\* c.isalnum() or c in (' ', '-', '_')
IsSafeChar(c) == c \in (1..26) \cup (101..126) \cup {27, 28, 31}

RECURSIVE RStrip(_)
\* str.rstrip()
RStrip(s) ==
    IF Len(s) > 0 /\ s[Len(s)] = 27 THEN RStrip(SubSeq(s, 1, Len(s) - 1)) ELSE s

\* "".join(c for c in dish_name if ...).rstrip(), then .replace(' ', '_')
SafeFileName(chars) ==
    LET safe_name == RStrip(SelectSeq(chars, IsSafeChar))
    IN  [i \in 1..Len(safe_name) |-> IF safe_name[i] = 27 THEN 31 ELSE safe_name[i]]

\* "Save image": the file name from the dish name, the file written
SaveImage(dish_name, env) ==
    IF dish_name.ty # "str" THEN Raised("TypeError")
    ELSE IF env.write # "ok" THEN Raised("OSError")
    ELSE Returned(ImagePath(SafeFileName(dish_name.chars)), TRUE)

\* _try_ollama_image_endpoint: every exception gives the placeholder
try_ollama_image_endpoint(dish_name, env) ==
    LET r == IF env.alt # "ok" THEN Raised("HTTPError")
             ELSE SaveImage(dish_name, env)
    IN  IF r.raised THEN Returned(get_placeholder_image(dish_name), FALSE) ELSE r

\* the try block of _generate_with_ollama.  settings.OLLAMA_IMAGE_MODEL is
\* read before the call; Settings declares no such field (env.model is
\* "missing"), and the other values stand for a configuration that has it.
OllamaImageBody(dish_name, env) ==
    IF env.model = "missing" THEN Raised("AttributeError")
    ELSE IF env.post = "http_error" THEN Raised("HTTPError")
    ELSE IF env.post = "not_json" THEN Raised("ValueError")
    ELSE IF env.post = "json_number" THEN Raised("TypeError")
    ELSE IF env.post = "response"
    THEN IF env.model = "flux-prompt"
         THEN Returned(get_placeholder_image(dish_name), FALSE)
         ELSE IF env.text \in {"data_uri", "long_b64"}
         THEN SaveImage(dish_name, env)
         ELSE Returned(get_placeholder_image(dish_name), FALSE)
    ELSE IF env.post = "image"
    THEN IF env.image = "b64" THEN SaveImage(dish_name, env)
         ELSE Raised("binascii.Error")
    ELSE try_ollama_image_endpoint(dish_name, env)

\* a mutant: no except clause
generate_with_ollama_uncaught(dish_name, env) == OllamaImageBody(dish_name, env)

\* _generate_with_ollama: the except clauses give the placeholder; the one
\* for httpx.HTTPError prints settings.OLLAMA_IMAGE_MODEL first
generate_with_ollama(dish_name, env) ==
    LET r == OllamaImageBody(dish_name, env)
    IN  IF ~r.raised THEN r
        ELSE IF r.error = "HTTPError" /\ env.model = "missing"
        THEN Raised("AttributeError")
        ELSE Returned(get_placeholder_image(dish_name), FALSE)

generate_food_image(image_mode, dish_name, env) ==
    IF image_mode = "ollama" THEN generate_with_ollama(dish_name, env)
    ELSE Returned(get_placeholder_image(dish_name), FALSE)

\* settings.IMAGE_MODE, and the image service while no call of it is made
IMAGE_MODE == "placeholder"
NoImageEnv == [post |-> "none"]

-----------------------------------------------------------------------------
(* routers/recipes.py: get_daily_recipe                                    *)

\* settings.LLM_MODE
DailyMode == "ollama"

HistoryLimit == 10

\* the first n entries of a sequence
Limit(s, n) == IF Len(s) <= n THEN s ELSE SubSeq(s, 1, n)

\* the user's suggestions of the UTC day of `now`
TodaySuggestions(u) ==
    LET today_start == Midnight(now)
        today_end == PlusDays(today_start, 1)
    IN  {x \in suggestions : /\ x.user_id = u.id
                             /\ NotEarlier(x.suggested_at, today_start)
                             /\ Earlier(x.suggested_at, today_end)}

PantryOf(u) == {i \in pantry : i.user_id = u.id}

DailyResponse(user_id, status, detail, calls, body) ==
    [op |-> "daily", user_id |-> user_id, status |-> status,
     detail |-> detail, calls |-> calls, body |-> body]

DailyBody(recipe_data, suggested_at) ==
    [recipe |-> recipe_data,
     image_url |-> generate_food_image(IMAGE_MODE, recipe_data["name"],
                                       NoImageEnv).path,
     suggested_at |-> suggested_at]

\* get_daily_recipe up to the call of generate_recipe_for_user: the three
\* SELECTs, the answer from today's suggestion (the query has no ORDER BY:
\* .first() is any one of today's) and the 400 for an empty pantry
DailyRead(w, u) ==
    /\ IdleWorkerFor(w)
    /\ IF TodaySuggestions(u) # {}
       THEN /\ \E existing_suggestion \in TodaySuggestions(u) :
                  resp' = DailyResponse(u.id, 200, "", 0,
                              DailyBody(Loads(existing_suggestion.recipe_json),
                                        existing_suggestion.suggested_at))
            /\ pc' = pc
       ELSE IF PantryOf(u) = {}
       THEN /\ resp' = DailyResponse(u.id, 400,
                 "No pantry items found. Please add ingredients to your pantry first.",
                 0, << >>)
            /\ pc' = pc
       ELSE /\ \E pantry_items \in Orderings(PantryOf(u)),
                  hist \in NewestFirst(RowsOf(u)) :
                  pc' = [pc EXCEPT ![w] =
                           [IdleWorker EXCEPT
                              !.at = "daily",
                              !.user_id = u.id,
                              !.pantry_items = pantry_items,
                              !.hist = Limit(hist, HistoryLimit)]]
            /\ resp' = NoResponse
    /\ UNCHANGED <<sim, g, users, pantry, history, suggestions, now>>

\* what the backend answers a daily request
DailyOutcomes ==
    {Failure("timeout"), Answer(Dumps(FullRecipe(EggCurry))), Answer(<<W, W>>)}

\* the ways generate_recipe_for_user can end from the state s of its loop
RECURSIVE FinalsOver(_, _)
FinalsOver(s, outcomes) ==
    IF s.pc # "loop" THEN {s}
    ELSE UNION {FinalsOver(Attempt(s, out), outcomes) : out \in outcomes}

\* the names of the pantry items, which the prompt lists
ItemNames(pantry_items) == [i \in DOMAIN pantry_items |-> pantry_items[i].name]

SuggestionRow(id, user_id, recipe_data, t) ==
    [id |-> id, user_id |-> user_id, recipe_json |-> Dumps(recipe_data),
     suggested_at |-> t]

\* a mutant: a generation that raised stores the fallback recipe
DailyFinishWith_stores_on_error(w, outcomes) ==
    /\ pc[w].at = "daily"
    /\ \E f \in FinalsOver(GenStart(DailyMode, ItemNames(pc[w].pantry_items),
                                     pc[w].hist, TRUE), outcomes) :
          IF f.pc = "raised"
          THEN /\ suggestions' = suggestions \cup
                      {SuggestionRow(NextId(suggestions), pc[w].user_id,
                                     StirFryRecipe, now)}
               /\ resp' = DailyResponse(pc[w].user_id, 500,
                                        "Internal Server Error", f.calls, << >>)
          ELSE /\ suggestions' = suggestions \cup
                      {SuggestionRow(NextId(suggestions), pc[w].user_id,
                                     f.recipe_data, now)}
               /\ resp' = DailyResponse(pc[w].user_id, 200, "", f.calls,
                                        DailyBody(f.recipe_data, now))
    /\ pc' = [pc EXCEPT ![w] = IdleWorker]
    /\ UNCHANGED <<sim, g, users, pantry, history, now>>

\* get_daily_recipe from the call of generate_recipe_for_user on: the
\* generation, the INSERT of the suggestion with the time of now, the answer;
\* an error of the generation ends the request with a 500 and no row.
\* `outcomes` is what the backend can answer.
DailyFinishWith(w, outcomes) ==
    /\ pc[w].at = "daily"
    /\ \E f \in FinalsOver(GenStart(DailyMode, ItemNames(pc[w].pantry_items),
                                     pc[w].hist, TRUE), outcomes) :
          IF f.pc = "raised"
          THEN /\ suggestions' = suggestions
               /\ resp' = DailyResponse(pc[w].user_id, 500,
                                        "Internal Server Error", f.calls, << >>)
          ELSE /\ suggestions' = suggestions \cup
                      {SuggestionRow(NextId(suggestions), pc[w].user_id,
                                     f.recipe_data, now)}
               /\ resp' = DailyResponse(pc[w].user_id, 200, "", f.calls,
                                        DailyBody(f.recipe_data, now))
    /\ pc' = [pc EXCEPT ![w] = IdleWorker]
    /\ UNCHANGED <<sim, g, users, pantry, history, now>>

DailyFinish(w) == DailyFinishWith(w, DailyOutcomes)

-----------------------------------------------------------------------------
(* routers/recipes.py: generate_recipe                                     *)

\* a mutant: an empty pantry is refused whatever the request says
NoPantry_any_request(pantry_items, request) == pantry_items = << >>

\* not pantry_items and request.use_pantry
NoPantry(pantry_items, request) == pantry_items = << >> /\ request.use_pantry

\* what each backend call of a generation met: "ok" or the kind of failure
CallKinds(f) == [i \in DOMAIN f.log |-> f.log[i].kind]

GenerateResponse(u, request, status, detail, f, pantry_items, hist, body) ==
    [op |-> "generate", user_id |-> u.id, request |-> request,
     status |-> status, detail |-> detail, calls |-> f.calls,
     kinds |-> CallKinds(f),
     pantry_items |-> pantry_items, history |-> hist, body |-> body]

\* a mutant: a recipe answered with 200 is stored in the history as well
GenerateRecipeWith_saved(u, request, outcomes) ==
    /\ \E pantry_items \in Orderings(PantryOf(u)) :
          IF NoPantry(pantry_items, request)
          THEN resp' = GenerateResponse(u, request, 400,
                  "No pantry items found. Please add ingredients to your pantry first.",
                  [calls |-> 0, log |-> << >>], << >>, << >>, << >>)
          ELSE \E newest \in NewestFirst(RowsOf(u)) :
                  LET hist == Limit(newest, HistoryLimit)
                  IN  \E f \in FinalsOver(GenStart(DailyMode, ItemNames(pantry_items),
                                                   hist, request.avoid_repeats),
                                          outcomes) :
                         IF f.pc = "raised"
                         THEN resp' = GenerateResponse(u, request, 500,
                                         "Internal Server Error", f,
                                         pantry_items, hist, << >>)
                         ELSE resp' = GenerateResponse(u, request, 200, "",
                                         f, pantry_items, hist,
                                         [recipe |-> f.recipe_data,
                                          image_url |-> generate_food_image(
                                              IMAGE_MODE, f.recipe_data["name"],
                                              NoImageEnv).path])
    /\ history' = IF resp'.status = 200
                  THEN history \cup {HistoryRow(NextId(history), u.id,
                                                resp'.body.recipe, Null, now)}
                  ELSE history
    /\ UNCHANGED <<sim, g, users, pantry, suggestions, now, pc>>

\* POST /recipes/generate.  The response record keeps, next to the answer,
\* the pantry items and the history the handler passed to the generation,
\* the number of backend calls made and what each call met.  `outcomes` is what the backend can
\* answer.
GenerateRecipeWith(u, request, outcomes) ==
    /\ \E pantry_items \in Orderings(PantryOf(u)) :
          IF NoPantry(pantry_items, request)
          THEN resp' = GenerateResponse(u, request, 400,
                  "No pantry items found. Please add ingredients to your pantry first.",
                  [calls |-> 0, log |-> << >>], << >>, << >>, << >>)
          ELSE \E newest \in NewestFirst(RowsOf(u)) :
                  LET hist == Limit(newest, HistoryLimit)
                  IN  \E f \in FinalsOver(GenStart(DailyMode, ItemNames(pantry_items),
                                                   hist, request.avoid_repeats),
                                          outcomes) :
                         IF f.pc = "raised"
                         THEN resp' = GenerateResponse(u, request, 500,
                                         "Internal Server Error", f,
                                         pantry_items, hist, << >>)
                         ELSE resp' = GenerateResponse(u, request, 200, "",
                                         f, pantry_items, hist,
                                         [recipe |-> f.recipe_data,
                                          image_url |-> generate_food_image(
                                              IMAGE_MODE, f.recipe_data["name"],
                                              NoImageEnv).path])
    /\ UNCHANGED <<sim, g, users, pantry, history, suggestions, now, pc>>

-----------------------------------------------------------------------------
(* SpecSim: ensure_non_repetitive applied to drawn inputs.                 *)

MaxSimHist == 11

SimFillers == {EggCurry, TomatoPie}

\* histories of up to MaxSimHist entries: one name among fillers
SimHistories ==
    {<< >>} \cup
    {[i \in 1..n |-> HistRow(IF i = p[1] THEN p[2] ELSE p[3])] :
        n \in 1..MaxSimHist, p \in (1..MaxSimHist) \X NameIds \X SimFillers}

SimCandidates ==
    {("name" :> Str(n)) : n \in NameIds} \cup {EmptyDict, ("name" :> Num(0))}

SimInit ==
    /\ sim \in {[history |-> h, candidate |-> c, out |-> "pending"] :
                   h \in SimHistories, c \in SimCandidates}
    /\ g = GenIdle
    /\ StoreIdle

SimApply ==
    /\ sim.out = "pending"
    /\ sim' = [sim EXCEPT !.out = ensure_non_repetitive(sim.history, sim.candidate)]
    /\ UNCHANGED <<g, storeVars>>

SimNext == SimApply

SpecSim == SimInit /\ [][SimNext]_vars

-----------------------------------------------------------------------------
(* SpecGen: one call of generate_recipe_for_user.                          *)

MaxGenHist == 2

GenHistNames == {StirFry, TomatoDal, EggCurry}

GenHistories ==
    {<< >>} \cup
    UNION {[1..n -> {HistRow(x) : x \in GenHistNames}] : n \in 1..MaxGenHist}

GenInit ==
    /\ g \in {GenStart(m, << >>, h, a) :
                 m \in Modes, h \in GenHistories, a \in BOOLEAN}
    /\ sim = SimIdle
    /\ StoreIdle

\* one iteration of the retry loop
GenAttempt ==
    /\ g.pc = "loop"
    /\ \E out \in Outcomes(g.mode) : g' = Attempt(g, out)
    /\ UNCHANGED <<sim, storeVars>>

GenNext == GenAttempt

SpecGen == GenInit /\ [][GenNext]_vars

\* the loop is never abandoned: each backend call ends (every variant's call
\* has a timeout or a token limit) and the next statement runs
FairSpecGen == SpecGen /\ WF_vars(GenNext)

-----------------------------------------------------------------------------
(* SpecAuth: registrations and logins, two workers.                        *)

AuthInit ==
    /\ sim = SimIdle
    /\ g = GenIdle
    /\ StoreIdle

AuthNext ==
    \/ \E w \in Workers, e \in Emails, p \in Passwords : RegisterSelect(w, e, p)
    \/ \E w \in Workers : RegisterInsert(w)
    \/ \E e \in Emails, p \in Passwords : Login(e, p)

SpecAuth == AuthInit /\ [][AuthNext]_vars

-----------------------------------------------------------------------------
(* SpecHist: two users save recipes and read their history and their       *)
(* weekly report, as the clock moves over a week.                          *)

MaxHist == 2

HistInstants == {At(0, 0), At(WeekDays, 0), At(WeekDays, 1)}

\* the bodies of the save requests
NoFields == [k \in {"description"} |-> Str(0)]
NullNamed == [k \in {"name"} |-> Null]
NumAmount == [k \in {"name", "ingredients"} |->
                 IF k = "name" THEN Str(EggCurry) ELSE List(4)]
SaveRequests ==
    { [recipe_json |-> FullRecipe(TomatoDal), calories |-> Centi(10025)],
      [recipe_json |-> FullRecipe(EggCurry), calories |-> Null],
      [recipe_json |-> [k \in {"name", "ingredients"} |->
                           IF k = "name" THEN Str(TomatoDal) ELSE List(2)],
       calories |-> Null],
      [recipe_json |-> NoFields, calories |-> Null],
      [recipe_json |-> NullNamed, calories |-> Null],
      [recipe_json |-> NumAmount, calories |-> Null],
      [recipe_json |-> NoFields, calories |-> Centi(0)] }

Periods == {"none", "week", "month"}

HistInit ==
    /\ sim = SimIdle
    /\ g = GenIdle
    /\ StoreWith(TwoUsers)

HistNext ==
    \/ \E u \in users, q \in SaveRequests :
          /\ Cardinality(history) < MaxHist
          /\ SaveRecipe(u, q.recipe_json, q.calories)
    \/ \E u \in users, period \in Periods : GetHistory(u, period)
    \/ \E u \in users : WeeklyReport(u)
    \/ Tick(HistInstants)

SpecHist == HistInit /\ [][HistNext]_vars

-----------------------------------------------------------------------------
(* SpecPantry: two users add, list, update and delete pantry items.        *)

MaxPantryId == 2

Rice == [name |-> "rice", quantity |-> 2, unit |-> "kg"]
Eggs == [name |-> "egg", quantity |-> 6, unit |-> "pieces"]
PantryItems == {Rice, Eggs}

\* the bodies of the PUT requests
PantryUpdates ==
    { [name |-> None, quantity |-> Some(5), unit |-> None],
      [name |-> Some("flour"), quantity |-> None, unit |-> Some("g")],
      [name |-> None, quantity |-> None, unit |-> None] }

ItemIds == 1..MaxPantryId

PantryInit ==
    /\ sim = SimIdle
    /\ g = GenIdle
    /\ StoreWith(TwoUsers)

PantryNext ==
    \/ \E u \in users, item \in PantryItems :
          /\ NextId(pantry) <= MaxPantryId
          /\ AddPantry(u, item)
    \/ \E u \in users : ListPantry(u)
    \/ \E u \in users, id \in ItemIds, d \in PantryUpdates : UpdatePantry(u, id, d)
    \/ \E u \in users, id \in ItemIds : DeletePantry(u, id)

SpecPantry == PantryInit /\ [][PantryNext]_vars

-----------------------------------------------------------------------------
(* SpecDaily: daily suggestions for two users over two days, two workers.  *)
(* One user's pantry is stocked from the start; the other stocks theirs    *)
(* and saves a recipe along the way.                                       *)

MaxSugg == 2

DailyInstants == {At(0, 0), At(0, 1), At(1, 0), At(1, 1)}

DailyInit ==
    /\ sim = SimIdle
    /\ g = GenIdle
    /\ users = TwoUsers
    /\ pantry = {PantryRow(1, 2, Rice, Epoch)}
    /\ history = {}
    /\ suggestions = {}
    /\ now = Epoch
    /\ pc = [w \in Workers |-> IdleWorker]
    /\ resp = NoResponse

\* a bound on the suggestions stored and under way
Pending == Cardinality({w \in Workers : pc[w].at = "daily"})

DailyNext ==
    \/ \E u \in users : PantryOf(u) = {} /\ AddPantry(u, Rice)
    \/ \E u \in users :
          /\ PantryOf(u) # {}
          /\ RowsOf(u) = {}
          /\ u.id = 1
          /\ SaveRecipe(u, FullRecipe(EggCurry), Null)
    \/ \E w \in Workers, u \in users :
          /\ TodaySuggestions(u) # {} \/ Cardinality(suggestions) + Pending < MaxSugg
          /\ DailyRead(w, u)
    \/ \E w \in Workers : DailyFinish(w)
    \/ Tick(DailyInstants)

SpecDaily == DailyInit /\ [][DailyNext]_vars

-----------------------------------------------------------------------------
(* SpecImage: generate_food_image applied to drawn dish names, image modes *)
(* and behaviours of the Ollama image service.                             *)

ImageModes == {"placeholder", "ollama", "local_sd"}

ImageNames ==
    { DishStr(<<105, 7, 7, 27, 103, 21, 18, 18, 25>>),     \* "Egg Curry"
      DishStr(<<30, 30, 29, 24, 29, 25>>),                 \* "../x/y"
      DishStr(<<4, 1, 12, 27, 27>>),                       \* "dal  "
      DishStr(<< >>),                                      \* ""
      DishNum }

\* the configured image model and what the service and the disk do: the
\* answer of POST /api/generate, the text or the image field it holds, the
\* answer of POST /api/image and the write of the file
ImageEnvs ==
    [model : {"missing", "flux-prompt", "sdxl"},
     post : {"http_error", "not_json", "json_number", "response", "image", "other"},
     text : {"data_uri", "data_uri_undecodable", "long_b64", "long_text", "short_text"},
     image : {"b64", "not_b64"},
     alt : {"ok", "error"},
     write : {"ok", "oserror"}]

ImageInit ==
    /\ sim \in {[image_mode |-> m, dish_name |-> n, env |-> e,
                  done |-> FALSE, out |-> Raised("")] :
                   m \in ImageModes, n \in ImageNames, e \in ImageEnvs}
    /\ g = GenIdle
    /\ StoreIdle

ImageApply ==
    /\ ~sim.done
    /\ sim' = [sim EXCEPT !.done = TRUE,
                          !.out = generate_food_image(sim.image_mode,
                                                      sim.dish_name, sim.env)]
    /\ UNCHANGED <<g, storeVars>>

ImageNext == ImageApply

SpecImage == ImageInit /\ [][ImageNext]_vars

-----------------------------------------------------------------------------
(* SpecRecipes: recipe generation on demand and the daily suggestion, on   *)
(* one day and one request at a time, for users who stock their pantry and *)
(* save the fallback recipe along the way.                                 *)

GenerateRequests == [use_pantry : BOOLEAN, avoid_repeats : BOOLEAN]

\* the backend is unreachable, answers a recipe, or answers prose
RecipesOutcomes ==
    {Failure("timeout"), Answer(Dumps(FullRecipe(EggCurry))), Answer(<<W>>)}

RecipesInit ==
    /\ sim = SimIdle
    /\ g = GenIdle
    /\ StoreWith(TwoUsers)

RecipesNext ==
    \/ \E u \in users :
          /\ Pending = 0
          /\ PantryOf(u) = {}
          /\ NextId(pantry) <= MaxPantryId
          /\ AddPantry(u, Rice)
    \/ \E u \in users, id \in ItemIds : Pending = 0 /\ DeletePantry(u, id)
    \/ \E u \in users :
          /\ Pending = 0
          /\ RowsOf(u) = {}
          /\ u.id = 1
          /\ SaveRecipe(u, StirFryRecipe, Null)
    \/ \E u \in users, request \in GenerateRequests :
          /\ Pending = 0
          /\ GenerateRecipeWith(u, request, RecipesOutcomes)
    \/ \E w \in Workers, u \in users : Pending = 0 /\ DailyRead(w, u)
    \/ \E w \in Workers : DailyFinishWith(w, {Failure("timeout")})

SpecRecipes == RecipesInit /\ [][RecipesNext]_vars

-----------------------------------------------------------------------------
(* SpecApp: two users use the pantry, recipe and history routes side by    *)
(* side on one day, one request at a time, the backend unreachable.        *)

AppInit ==
    /\ sim = SimIdle
    /\ g = GenIdle
    /\ StoreWith(TwoUsers)

AppNext ==
    \/ \E u \in users :
          /\ NextId(pantry) <= MaxPantryId
          /\ PantryOf(u) = {}
          /\ AddPantry(u, Rice)
    \/ \E u \in users : ListPantry(u)
    \/ \E u \in users, id \in ItemIds :
          UpdatePantry(u, id, [name |-> None, quantity |-> Some(5), unit |-> None])
    \/ \E u \in users, id \in ItemIds : DeletePantry(u, id)
    \/ \E u \in users :
          /\ RowsOf(u) = {}
          /\ SaveRecipe(u, FullRecipe(EggCurry), Null)
    \/ \E u \in users : GetHistory(u, "none")
    \/ \E u \in users : WeeklyReport(u)
    \/ \E u \in users :
          GenerateRecipeWith(u, [use_pantry |-> TRUE, avoid_repeats |-> TRUE],
                             {Failure("timeout")})
    \/ \E u \in users : Pending = 0 /\ u.id = 1 /\ DailyRead("w1", u)
    \/ \E w \in Workers : DailyFinishWith(w, {Failure("timeout")})

SpecApp == AppInit /\ [][AppNext]_vars

-----------------------------------------------------------------------------
(* Claims about the generation pipeline.                                   *)

\* whether the loop's condition lets the attempt of log entry e return
Passes(e) ==
    /\ e.verdict # "raised"
    /\ \/ ~g.avoid_repeats
       \/ g.history = << >>
       \/ ensure_non_repetitive(g.history, e.recipe) = "True"

C1_Bounded ==
    /\ g.calls = Len(g.log)
    /\ g.calls <= 3
    /\ g.pc = "loop" => g.calls < 3
    /\ g.pc \in {"returned", "raised"} => g.calls >= 1
    /\ g.pc = "returned" =>
          /\ g.recipe_data = g.log[Len(g.log)].recipe
          /\ \A i \in 1..(Len(g.log) - 1) : ~Passes(g.log[i])
          /\ Passes(g.log[Len(g.log)]) \/ Len(g.log) = 3

\* C1: generate_recipe_for_user calls the backend at least once and at most
\* 3 times and then ends; when it returns, it returns the first attempt the
\* loop's condition lets through, having made no call after it, or, all 3
\* attempts rejected, the recipe of the third.
C1_RetryLoop == [](C1_Bounded) /\ <>(g.pc # "loop")

\* C1 witness: three attempts were rejected and the third was returned
C1_Witness ==
    /\ g.pc = "returned"
    /\ g.calls = 3
    /\ \A i \in 1..3 : ~Passes(g.log[i])

\* C2: whatever goes wrong with a backend call (the call fails, or its answer
\* is no valid recipe JSON) the variant yields its fallback literal, so
\* generate_recipe_for_user never ends with an error.
C2_FailuresYieldFallback ==
    /\ \A i \in 1..Len(g.log) :
          (g.log[i].kind # "ok" \/ ~parse_recipe_response(g.log[i].text).ok)
              => g.log[i].text = FallbackRecipe(g.mode)
    /\ g.pc # "raised"

\* C5: ensure_non_repetitive returns False exactly when the ratio of the
\* lower-cased candidate name and the lower-cased name of one of the last 10
\* history entries is above 0.7 (strictly), and True otherwise: for an empty
\* history, for ratios up to and including 0.7, and whatever the entries
\* before the last 10 are.
C5_RejectsAboveThreshold ==
    (sim.out \in {"True", "False"}) =>
        LET n == IF "name" \in DOMAIN sim.candidate
                 THEN sim.candidate["name"].x ELSE EmptyName
            h == sim.history
            last10 == {i \in 1..Len(h) : i > Len(h) - 10}
            above(i) == LET r == LowerRatio[<<n, h[i].recipe_name>>]
                        IN  10 * r[1] > 7 * r[2]
        IN  /\ (sim.out = "False") <=> (\E i \in last10 : above(i))
            /\ h = << >> => sim.out = "True"

\* C5 witness: a candidate accepted although the 11th entry from the end has
\* its very name, the last 10 all being at ratio 0.7 exactly
C5_Witness ==
    /\ sim.out = "True"
    /\ Len(sim.history) = 11
    /\ sim.candidate = ("name" :> Str(TomatoDal))
    /\ sim.history[1].recipe_name = TomatoDal
    /\ \A i \in 2..11 : sim.history[i].recipe_name = TomatoPie

-----------------------------------------------------------------------------
(* Claims about registration and login.                                    *)

Stored(email) == \E u \in users : u.email = email

\* C6: a register request whose email already belongs to a stored user is
\* answered 400 'Email already registered' and leaves the users as they are;
\* one whose email the duplicate check found unused is answered 201 with a
\* bearer token and adds exactly one user, with that email.
C6_RegisterOutcome ==
    [][resp'.op = "register" =>
         IF pc' = pc
         THEN /\ Stored(resp'.email)
              /\ resp'.status = 400
              /\ resp'.detail = "Email already registered"
              /\ users' = users
         ELSE /\ resp'.status = 201
              /\ resp'.body.token_type = "bearer"
              /\ \E u \in users' \ users :
                    /\ users' = users \cup {u}
                    /\ u.email = resp'.email]_vars

\* C7: no two stored users have the same email, and a register request that
\* does not create a user, the loser of two interleaved ones included, is
\* answered with the 400 duplicate-email response.
C7_UniqueEmails ==
    /\ \A u, v \in users : u.email = v.email => u = v
    /\ (resp.op = "register" /\ resp.status # 201) =>
          /\ resp.status = 400
          /\ resp.detail = "Email already registered"

\* C8: login answers 200 with a token exactly when a stored user has the
\* email and the password matches that user's stored hash; otherwise, for a
\* wrong password as for an unknown email, it answers 401 with the one detail
\* 'Incorrect email or password'; a login changes nothing in the store.
C8_Login ==
    [][resp'.op = "login" =>
         /\ <<users, pantry, history, suggestions>>' =
               <<users, pantry, history, suggestions>>
         /\ IF \E u \in users : /\ u.email = resp'.email
                                /\ u.password_hash =
                                      get_password_hash(resp'.password)
            THEN /\ resp'.status = 200
                 /\ resp'.body.token_type = "bearer"
                 /\ \E u \in users : /\ u.email = resp'.email
                                     /\ resp'.body = create_access_token(u.id)
            ELSE /\ resp'.status = 401
                 /\ resp'.detail = "Incorrect email or password"]_vars

\* a login with the email of a stored user and another password than theirs
C8_Witness ==
    /\ resp.op = "login"
    /\ resp.status = 401
    /\ \E u \in users : /\ u.email = resp.email
                        /\ u.password_hash # get_password_hash(resp.password)

-----------------------------------------------------------------------------
(* Claims about the history and the weekly report.                         *)

LastWeek(user_id) ==
    {r \in history : /\ r.user_id = user_id
                     /\ ~Earlier(r.created_at, At(now.d - 7, now.h))}
CaloriesSum(S) == SumOver(S)

\* whether t tenths is x/n hundredths rounded to one decimal place: no
\* further than half a tenth away, and even if exactly half a tenth away
RoundsTo(t, x, n) ==
    /\ 10 * t * n - x <= 5 * n
    /\ x - 10 * t * n <= 5 * n
    /\ (10 * t * n - x = 5 * n \/ x - 10 * t * n = 5 * n) => t % 2 = 0

\* C10: in the weekly report meals_count is the number of the user's history
\* entries of the last 7 days, total_calories is the sum of their calories
\* (a missing value counted as 0) rounded to one decimal place, and
\* avg_calories_per_meal is that sum divided by meals_count, rounded to one
\* decimal place, when meals_count > 0 and 0 when it is 0; for a user with no
\* history every field is 0 and top_ingredients is empty.
C10_WeeklyReport ==
    resp.op = "report" =>
        LET S == LastWeek(resp.user_id)
            n == Cardinality(S)
            b == resp.body
        IN  /\ b.meals_count = n
            /\ RoundsTo(b.total_calories, CaloriesSum(S), 1)
            /\ n > 0 => RoundsTo(b.avg_calories_per_meal, CaloriesSum(S), n)
            /\ n = 0 => b.avg_calories_per_meal = 0
            /\ (\A r \in history : r.user_id # resp.user_id) =>
                  /\ b.total_calories = 0
                  /\ b.variety_score = 0
                  /\ b.meals_count = 0
                  /\ b.avg_calories_per_meal = 0
                  /\ b.top_ingredients = << >>

\* a report over one meal of 100.25 kcal, an older meal left out
C10_Witness ==
    /\ resp.op = "report"
    /\ resp.body.meals_count = 1
    /\ CaloriesSum(LastWeek(resp.user_id)) % 10 # 0
    /\ \E r \in history : r.user_id = resp.user_id /\ r \notin LastWeek(resp.user_id)

\* C10 as stated: total_calories is the sum itself and avg_calories_per_meal
\* is total_calories / meals_count itself
C10_Unrounded ==
    resp.op = "report" =>
        LET S == LastWeek(resp.user_id)
            n == Cardinality(S)
            b == resp.body
        IN  /\ b.meals_count = n
            /\ 10 * b.total_calories = CaloriesSum(S)
            /\ n > 0 => b.avg_calories_per_meal * n = b.total_calories
            /\ n = 0 => b.avg_calories_per_meal = 0

-----------------------------------------------------------------------------
(* Claims about the daily suggestion.                                      *)

SameDay(a, b) == a.d = b.d

\* C3: once a suggestion of the user's is stored for the UTC day, a GET
\* /recipes/daily of that user on that day returns that stored recipe with
\* its suggested_at, calls no backend and adds no row.
C3_CachedSameDay ==
    [][\A x \in suggestions :
          (/\ resp'.op = "daily"
           /\ pc' = pc
           /\ x.user_id = resp'.user_id
           /\ SameDay(x.suggested_at, now))
          => /\ resp'.status = 200
             /\ resp'.body.recipe = Loads(x.recipe_json)
             /\ resp'.body.suggested_at = x.suggested_at
             /\ resp'.calls = 0
             /\ suggestions' = suggestions]_vars

\* C4: the store never holds two suggestions of one user for one UTC day.
C4_OnePerUserPerDay ==
    \A x, y \in suggestions :
        (x.user_id = y.user_id /\ SameDay(x.suggested_at, y.suggested_at))
        => x = y

-----------------------------------------------------------------------------
(* Claims about the shape of a generated recipe.                           *)

\* C11: a recipe generate_recipe_for_user returns holds all nine fields of
\* the recipe shape, health_justification among them.
C11_NineFields ==
    g.pc = "returned" => \A f \in FieldNames : f \in DOMAIN g.recipe_data

-----------------------------------------------------------------------------
(* Claims about the pantry.                                                *)

\* C12: a PUT or DELETE of /pantry/{id} answers 404 'Pantry item not found'
\* when no pantry item has the id and when the item with the id belongs to
\* another user, and then leaves every stored pantry item as it is.
C12_NotFound ==
    [][(/\ resp'.op \in {"pantry_update", "pantry_delete"}
        /\ \A i \in pantry : i.id = resp'.item_id => i.user_id # resp'.user_id)
       => /\ resp'.status = 404
          /\ resp'.detail = "Pantry item not found"
          /\ pantry' = pantry]_vars

\* a DELETE of an item that another user owns
C12_Witness ==
    /\ resp.op = "pantry_delete"
    /\ resp.status = 404
    /\ \E i \in pantry : i.id = resp.item_id /\ i.user_id # resp.user_id

-----------------------------------------------------------------------------
(* C13: per-user isolation.                                                *)

\* the rows a response shows, and the rows a request in flight holds, are
\* rows of the requesting user
OwnRowsOnly ==
    /\ resp.op = "pantry_list" =>
          \A k \in DOMAIN resp.body :
             /\ resp.body[k] \in pantry
             /\ resp.body[k].user_id = resp.user_id
    /\ resp.op = "history" =>
          \A k \in DOMAIN resp.body :
             \E r \in history : /\ r.id = resp.body[k].id
                                /\ r.user_id = resp.user_id
    /\ resp.op = "report" =>
          resp.body.meals_count = Cardinality(LastWeek(resp.user_id))
    /\ resp.op = "generate" =>
          /\ \A k \in DOMAIN resp.pantry_items :
                resp.pantry_items[k].user_id = resp.user_id
          /\ \A k \in DOMAIN resp.history :
                resp.history[k].user_id = resp.user_id
    /\ \A w \in Workers :
          pc[w].at = "daily" =>
             /\ \A k \in DOMAIN pc[w].pantry_items :
                   pc[w].pantry_items[k].user_id = pc[w].user_id
             /\ \A k \in DOMAIN pc[w].hist :
                   pc[w].hist[k].user_id = pc[w].user_id

\* the rows of the three tables that user `id` owns
OwnedBy(id) ==
    [pantry |-> {i \in pantry : i.user_id = id},
     history |-> {r \in history : r.user_id = id},
     suggestions |-> {s \in suggestions : s.user_id = id}]

\* C13: every step leaves a state in which the pantry list, the history
\* list, the weekly report and the pantry and history inputs of a recipe
\* generation hold rows of the requesting user only, and no step taken for
\* one user changes or removes a row that another user owns.
C13_Isolation ==
    [][/\ OwnRowsOnly'
       /\ \A u \in users :
             (resp'.op = "none" \/ resp'.user_id # u.id)
                => OwnedBy(u.id)' = OwnedBy(u.id)]_vars

\* a user lists a non-empty pantry while the other user has an item too
C13_Witness ==
    /\ resp.op = "pantry_list"
    /\ resp.body # << >>
    /\ \E i \in pantry : i.user_id # resp.user_id

-----------------------------------------------------------------------------
(* C14: the empty pantry.                                                  *)

NoPantryDetail ==
    "No pantry items found. Please add ingredients to your pantry first."

\* C14: when the user's pantry is empty, a daily request of a user without a
\* suggestion of today and a generate request with use_pantry = true are
\* answered 400 with the "No pantry items found" detail, with no backend
\* call and no row stored; a generate request with use_pantry = false goes
\* on to the generation, which is given an empty pantry.
C14_EmptyPantry ==
    [][/\ \A w \in Workers :
             (pc[w].at = "idle" /\ pc'[w].at = "daily")
                => \E i \in pantry : i.user_id = pc'[w].user_id
       /\ (/\ resp'.op = "daily"
           /\ pc' = pc
           /\ \A i \in pantry : i.user_id # resp'.user_id
           /\ \A s \in suggestions :
                 s.user_id = resp'.user_id => ~SameDay(s.suggested_at, now))
          => /\ resp'.status = 400
             /\ resp'.detail = NoPantryDetail
             /\ resp'.calls = 0
             /\ <<pantry, history, suggestions>>' = <<pantry, history, suggestions>>
       /\ (/\ resp'.op = "generate"
           /\ \A i \in pantry : i.user_id # resp'.user_id)
          => IF resp'.request.use_pantry
             THEN /\ resp'.status = 400
                  /\ resp'.detail = NoPantryDetail
                  /\ resp'.calls = 0
                  /\ <<pantry, history, suggestions>>'
                        = <<pantry, history, suggestions>>
             ELSE /\ resp'.status # 400
                  /\ resp'.calls >= 1
                  /\ resp'.pantry_items = << >>]_vars

\* a generate request with use_pantry = false is answered a recipe although
\* the pantry of the user is empty
C14_Witness ==
    /\ resp.op = "generate"
    /\ ~resp.request.use_pantry
    /\ resp.status = 200
    /\ \A i \in pantry : i.user_id # resp.user_id

-----------------------------------------------------------------------------
(* C15: generation on demand with the backend unreachable.                 *)

\* a generate request of a user with a pantry item, every backend call of
\* which failed
Unreachable ==
    /\ resp.op = "generate"
    /\ resp.pantry_items # << >>
    /\ \A k \in DOMAIN resp.kinds : resp.kinds[k] # "ok"

\* the history the handler read holds a name similar to the fallback's
SimilarToFallback ==
    \E k \in DOMAIN resp.history :
       Exceeds(NameSimilarity(StirFry, resp.history[k].recipe_name))

\* the answer is 200 with the fallback recipe, which has a name, and an
\* image_url
FallbackAnswered ==
    /\ resp.status = 200
    /\ DOMAIN resp.body = {"recipe", "image_url"}
    /\ parse_recipe_response(FallbackRecipe(DailyMode)).ok
    /\ resp.body.recipe = parse_recipe_response(FallbackRecipe(DailyMode)).recipe
    /\ "name" \in DOMAIN resp.body.recipe
    /\ resp.body.image_url = ImagePath(PlaceholderChars)

\* C15: a generate request of a user with a pantry item whose backend calls
\* all fail is answered 200 with the fallback recipe and an image_url; when
\* the request avoids repeats and the history read holds a name similar to
\* the fallback's, the backend was called three times.
C15_FallbackAnswer ==
    Unreachable
       => /\ FallbackAnswered
          /\ (resp.request.avoid_repeats /\ SimilarToFallback)
                => resp.calls = max_attempts

\* the fallback is answered after three calls, its name being in the history
C15_Witness ==
    /\ Unreachable
    /\ SimilarToFallback
    /\ resp.request.avoid_repeats
    /\ resp.calls = max_attempts
    /\ resp.body.recipe = StirFryRecipe

\* C15 as stated: three calls whenever the history holds a similar name,
\* whatever avoid_repeats says
C15_ThreeCallsAlways ==
    Unreachable
       => /\ FallbackAnswered
          /\ SimilarToFallback => resp.calls = max_attempts

-----------------------------------------------------------------------------
(* C16: saving a recipe.                                                   *)

\* recipe_json["name"], or "Unknown Recipe" without a name
SubmittedName(recipe_json) ==
    IF "name" \in DOMAIN recipe_json THEN recipe_json["name"]
    ELSE Str(UnknownRecipe)

\* C16: a save request is answered 201 and adds exactly one history row: the
\* row is the requester's, its recipe_name is the name of the submitted
\* recipe_json ("Unknown Recipe" without one), its text decodes back to the
\* submitted recipe_json, and every other row is left as it was.
C16_SaveAppendsOne ==
    [][resp'.op = "save"
       => /\ resp'.status = 201
          /\ \E row \in history' :
                /\ row \notin history
                /\ history' = history \cup {row}
                /\ row.user_id = resp'.user_id
                /\ Str(row.recipe_name) = SubmittedName(resp'.recipe_json)
                /\ IsJsonObject(row.recipe_json)
                /\ Loads(row.recipe_json) = resp'.recipe_json
          /\ <<users, pantry, suggestions>>' = <<users, pantry, suggestions>>]_vars

-----------------------------------------------------------------------------
(* C17: the life of a pantry item.                                         *)

\* the ids of the stored pantry items, each with its owner
PantryKeys == {<<i.id, i.user_id>> : i \in pantry}

\* what one step does to the pantry, by the request it answers
LifecycleStep ==
    /\ resp'.op = "pantry_add" =>
          /\ resp'.status = 201
          /\ resp'.body.user_id = resp'.user_id
          /\ resp'.body.name = resp'.item.name
          /\ resp'.body.quantity = resp'.item.quantity
          /\ resp'.body.unit = resp'.item.unit
          /\ \A i \in pantry : i.id # resp'.body.id
          /\ pantry' = pantry \cup {resp'.body}
    /\ (resp'.op = "pantry_delete" /\ resp'.status = 204) =>
          /\ \E i \in pantry : /\ i.id = resp'.item_id
                               /\ i.user_id = resp'.user_id
                               /\ pantry' = pantry \ {i}
          /\ \A i \in pantry' : i.id # resp'.item_id
    /\ (/\ resp.op = "pantry_delete"
        /\ resp.status = 204
        /\ resp'.op \in {"pantry_delete", "pantry_update"}
        /\ resp'.item_id = resp.item_id) =>
          resp'.status = 404
    /\ resp'.op = "pantry_update" => PantryKeys' = PantryKeys
    /\ resp'.op = "pantry_list" =>
          /\ {resp'.body[k] : k \in DOMAIN resp'.body}
                = {i \in pantry : i.user_id = resp'.user_id}
          /\ Len(resp'.body)
                = Cardinality({i \in pantry : i.user_id = resp'.user_id})
          /\ pantry' = pantry

\* the request gives a new item the id of the item deleted just before
IdGivenAgain ==
    /\ resp.op = "pantry_delete"
    /\ resp.status = 204
    /\ resp'.op = "pantry_add"
    /\ resp'.body.id = resp.item_id

\* C17: a POST answers 201 and adds one item of the requester, with the
\* submitted name, quantity and unit and an id that no stored item has; a
\* DELETE answered 204 removes the requester's item of that id and nothing
\* else, and a DELETE or PUT of that id right after it is answered 404; a
\* PUT neither adds nor removes an item; GET /pantry lists exactly the
\* stored items of the requester, each once.
C17_Lifecycle == [][LifecycleStep]_vars

\* an item is deleted while its owner keeps another one
C17_Witness ==
    /\ resp.op = "pantry_delete"
    /\ resp.status = 204
    /\ \E i \in pantry : i.user_id = resp.user_id

\* C17 as stated: the id of a new item is fresh, that is, no item has had
\* it, the item deleted just before included
C17_FreshIds == [][LifecycleStep /\ ~IdGivenAgain]_vars

-----------------------------------------------------------------------------
(* C18: generate_food_image.                                               *)

\* the call of generate_food_image has ended
ImageDone == sim.done

\* a path right under /static/images/
UnderImages(path) ==
    /\ path.dir = "/static/images/"
    /\ \A k \in DOMAIN path.file : path.file[k] # 29

\* C18: generate_food_image raises nothing and returns a path under
\* /static/images/: the placeholder when the image mode is not "ollama", and
\* in "ollama" mode the placeholder or the path of an image it has saved.
C18_ImagePath ==
    ImageDone
       => /\ ~sim.out.raised
          /\ UnderImages(sim.out.path)
          /\ sim.image_mode # "ollama"
                => sim.out.path = ImagePath(PlaceholderChars) /\ ~sim.out.saved
          /\ sim.image_mode = "ollama"
                => \/ sim.out.path = ImagePath(PlaceholderChars) /\ ~sim.out.saved
                   \/ sim.out.saved

\* an image is saved for a dish name that holds a '/'
C18_Witness ==
    /\ ImageDone
    /\ sim.out.saved
    /\ \E k \in DOMAIN sim.dish_name.chars : sim.dish_name.chars[k] = 29

-----------------------------------------------------------------------------
(* C19: the daily suggestion across days.                                  *)

\* the suggestions of the user stored on the day of `now`
OfToday(user_id) ==
    {s \in suggestions : s.user_id = user_id /\ SameDay(s.suggested_at, now)}

\* C19: a daily request never answers a suggestion of an earlier day; a
\* request of a user with a pantry item that ends while the user has no
\* suggestion of the day is answered 200 with a suggestion generated by at
\* least one backend call and stored as one new row of that user and day;
\* no step changes or removes a suggestion of an earlier day.
C19_NewSuggestionEachDay ==
    [][/\ (resp'.op = "daily" /\ resp'.status = 200)
             => SameDay(resp'.body.suggested_at, now')
       /\ \A w \in Workers :
             (/\ pc[w].at = "daily"
              /\ pc'[w].at = "idle"
              /\ OfToday(pc[w].user_id) = {})
                => /\ resp'.op = "daily"
                   /\ resp'.status = 200
                   /\ resp'.calls >= 1
                   /\ \E s \in suggestions' :
                         /\ s \notin suggestions
                         /\ suggestions' = suggestions \cup {s}
                         /\ s.user_id = pc[w].user_id
                         /\ s.suggested_at = resp'.body.suggested_at
                         /\ Loads(s.recipe_json) = resp'.body.recipe
       /\ \A s \in suggestions :
             ~SameDay(s.suggested_at, now) => s \in suggestions']_vars

-----------------------------------------------------------------------------
(* C20: the prompt over the attempts.                                      *)

\* the base prompt followed by n copies of the DIFFERENT instruction
BaseAnd(n) ==
    build_recipe_prompt(<< >>, RecentTitles(g.history))
       \o [i \in 1..n |-> DifferentPart]

\* C20: the prompt sent on attempt k is the base prompt, built from the
\* pantry and the recent titles, followed by exactly k - 1 copies of the
\* DIFFERENT instruction, one for each rejection before it.
C20_PromptPerAttempt ==
    \A k \in 1..Len(g.log) :
       /\ g.log[k].prompt = BaseAnd(k - 1)
       /\ \A j \in 1..(k - 1) : g.log[j].verdict = "rejected"

\* a third attempt was made
C20_Witness ==
    /\ Len(g.log) = max_attempts
    /\ Len(g.log[max_attempts].prompt) = max_attempts

-----------------------------------------------------------------------------
(* C21: generation without the non-repetition check.                       *)

\* the call of generate_recipe_for_user has ended
GenEnded == g.pc \in {"returned", "raised"}

\* the non-repetition check is out of play
NoCheck == ~g.avoid_repeats \/ Len(g.history) = 0

\* C21: with avoid_repeats false or an empty history, the call ends after
\* exactly one backend call by returning the recipe of that call, and no
\* attempt is ever rejected unless avoid_repeats is true and the history is
\* not empty.
C21_SingleCall ==
    /\ (GenEnded /\ NoCheck)
          => /\ g.pc = "returned"
             /\ g.calls = 1
             /\ Len(g.log) = 1
             /\ g.recipe_data = parse_recipe_response(g.log[1].text).recipe
    /\ \A k \in DOMAIN g.log :
          g.log[k].verdict = "rejected" => ~NoCheck

-----------------------------------------------------------------------------
(* C22: the backend variants.                                              *)

\* the variant the claim names for a value of LLM_MODE
VariantFor(mode) ==
    CASE mode = "ollama" -> "OllamaLLMClient"
      [] mode = "local" -> "LocalLLMClient"
      [] OTHER -> "APILLMClient"

-----------------------------------------------------------------------------
(* C23: parse_recipe_response.                                             *)

\* the JSON object the text contains, if it contains one
ObjectIn(text) == IF SearchJson(text) # << >> THEN SearchJson(text) ELSE text

\* the text contains a JSON object holding the eight fields
HoldsEight(text) ==
    /\ IsJsonObject(ObjectIn(text))
    /\ {"name", "description", "ingredients", "steps", "time_minutes",
        "difficulty", "calories", "macros"} \subseteq DOMAIN Loads(ObjectIn(text))

\* the decoded object, macros replaced by the zeros unless it is an object
DecodedWithMacros(text) ==
    LET d == Loads(ObjectIn(text))
    IN  [k \in DOMAIN d |-> IF k = "macros" /\ d[k].ty # "dict" THEN Dict(0)
                            ELSE d[k]]

\* C23: of every text handed to parse_recipe_response, one that contains a
\* JSON object holding the eight fields gives the decoded object, macros
\* replaced by the zeros when it is no object; any other text raises
\* ValueError and gives no recipe.
C23_ParseValidates ==
    \A k \in DOMAIN g.log :
       IF HoldsEight(g.log[k].text)
       THEN g.log[k].recipe = DecodedWithMacros(g.log[k].text)
       ELSE /\ g.log[k].verdict = "raised"
            /\ g.log[k].recipe = EmptyDict
            /\ g.error = "ValueError"

-----------------------------------------------------------------------------
(* C24: the calories of a saved recipe.                                    *)

\* a calories value that is given and is not zero
GivenNonZero(v) == v.ty = "num" /\ v.x # 0

\* the calories the claim derives for a save request
ClaimedCalories(recipe_json, calories) ==
    IF GivenNonZero(calories) THEN calories
    ELSE IF "calories" \in DOMAIN recipe_json
            /\ GivenNonZero(recipe_json["calories"])
    THEN recipe_json["calories"]
    ELSE IF "ingredients" \in DOMAIN recipe_json
    THEN Centi(estimate_calories_from_ingredients(
                   Ingredients(recipe_json["ingredients"])))
    ELSE Null

\* C24: every save request stores a row whose calories are the request's
\* calories when given and not zero, else those of recipe_json when present
\* and not zero, else the estimate from recipe_json's ingredients when it has
\* that key, else null.
C24_CaloriesDerived ==
    [][resp'.op = "save"
       => \E row \in history' :
             /\ row \notin history
             /\ row.calories = ClaimedCalories(resp'.recipe_json, resp'.calories)
             /\ resp'.body.calories = row.calories]_vars


-----------------------------------------------------------------------------
(* C25: the fields a PUT /pantry/{item_id} changes.                        *)

UpdatableFields == {"name", "quantity", "unit"}

\* the item after the update that the claim describes
ClaimedUpdate(item, item_data) ==
    [f \in DOMAIN item |->
        IF f \in UpdatableFields /\ item_data[f] # None
        THEN item_data[f][1]
        ELSE item[f]]

\* C25: a PUT /pantry/{item_id} on an item the requesting user owns is answered
\* 200, and changes exactly the fields among name, quantity and unit that the
\* request supplies: the other fields and id, user_id and created_at keep their
\* values, and every other pantry item stays as it was.
C25_UpdateFrame ==
    [][resp'.op = "pantry_update"
       => \A item \in pantry :
             (item.id = resp'.item_id /\ item.user_id = resp'.user_id)
             => /\ resp'.status = 200
                /\ resp'.body = ClaimedUpdate(item, resp'.item_data)
                /\ resp'.body \in pantry'
                /\ pantry' \ {resp'.body} = pantry \ {item}
                /\ resp'.body.id = item.id
                /\ resp'.body.user_id = item.user_id
                /\ resp'.body.created_at = item.created_at]_vars

\* an update that supplied the quantity alone was answered 200 while another
\* item is in the pantry
C25_Witness ==
    /\ resp.op = "pantry_update"
    /\ resp.status = 200
    /\ resp.item_data.name = None
    /\ resp.item_data.quantity # None
    /\ resp.body.quantity = resp.item_data.quantity[1]
    /\ \E other \in pantry : other.id # resp.item_id

-----------------------------------------------------------------------------
(* SpecWindow: two users save recipes and read their history by period and *)
(* their weekly report, as the clock moves over a week and over a month.   *)

MaxWindowHist == 2

WindowInstants ==
    {At(0, 0), At(WeekDays, 0), At(WeekDays, 1), At(MonthDays, 0),
     At(MonthDays, 1)}

WindowRequests ==
    { [recipe_json |-> FullRecipe(TomatoDal), calories |-> Centi(10025)],
      [recipe_json |-> FullRecipe(EggCurry), calories |-> Null] }

\* no period, the two periods the handler knows, and another value
WindowPeriods == {"none", "week", "month", "year"}

WindowNext ==
    \/ \E u \in users, q \in WindowRequests :
          /\ Cardinality(history) < MaxWindowHist
          /\ SaveRecipe(u, q.recipe_json, q.calories)
    \/ \E u \in users, period \in WindowPeriods : GetHistory(u, period)
    \/ \E u \in users : WeeklyReport(u)
    \/ Tick(WindowInstants)

SpecWindow == HistInit /\ [][WindowNext]_vars

-----------------------------------------------------------------------------
(* C26: the windows of GET /history and of the weekly report.              *)

Range(f) == {f[i] : i \in DOMAIN f}

\* the user's entries created no longer than `days` days ago
EntriesWithin(user_id, days) ==
    {r \in history :
        /\ r.user_id = user_id
        /\ ~Earlier(r.created_at, At(now.d - days, now.h))}

EntriesOfPeriod(user_id, period) ==
    IF period = "week" THEN EntriesWithin(user_id, 7)
    ELSE IF period = "month" THEN EntriesWithin(user_id, 30)
    ELSE {r \in history : r.user_id = user_id}

\* C26: GET /history answers with the user's entries of the last 7 days for
\* period 'week', of the last 30 days for period 'month', and with all of the
\* user's entries for no period or any other value; the weekly report counts
\* the same 7-day window, so that meals_count and total_calories are those of
\* the entries of the last 7 days and of no older one.
C26_Windows ==
    /\ resp.op = "history" =>
          {item.id : item \in Range(resp.body)}
             = {r.id : r \in EntriesOfPeriod(resp.user_id, resp.period)}
    /\ resp.op = "report" =>
          /\ resp.body.meals_count
                = Cardinality(EntriesWithin(resp.user_id, 7))
          /\ RoundsTo(resp.body.total_calories,
                      CaloriesSum(EntriesWithin(resp.user_id, 7)), 1)

\* a month's list that holds an entry older than a week and leaves out an
\* entry older than a month
C26_Witness ==
    /\ resp.op = "history"
    /\ resp.period = "month"
    /\ \E r \in history :
          /\ r.user_id = resp.user_id
          /\ r \notin EntriesWithin(resp.user_id, 30)
    /\ \E item \in Range(resp.body) :
          \A r \in EntriesWithin(resp.user_id, 7) : r.id # item.id

-----------------------------------------------------------------------------
(* SpecReport: a user saves recipes with ingredient lists of several kinds, *)
(* and two users read their weekly report, as the clock moves over a week. *)

MaxReportHist == 3

ReportInstants == {At(0, 0), At(WeekDays, 1)}

WithIngredients(n, list) ==
    [k \in {"name", "ingredients"} |-> IF k = "name" THEN Str(n) ELSE List(list)]

ReportRequests ==
    { [recipe_json |-> WithIngredients(TomatoDal, 3), calories |-> Centi(10025)],
      [recipe_json |-> WithIngredients(EggCurry, 2), calories |-> Null],
      [recipe_json |-> WithIngredients(TomatoDal, 5), calories |-> Null],
      [recipe_json |-> WithIngredients(EggCurry, 6), calories |-> Centi(30000)] }

\* the first user saves, both read
ReportNext ==
    \/ \E u \in {v \in users : v.id = 1}, q \in ReportRequests :
          /\ Cardinality(history) < MaxReportHist
          /\ SaveRecipe(u, q.recipe_json, q.calories)
    \/ \E u \in users : WeeklyReport(u)
    \/ Tick(ReportInstants)

SpecReport == HistInit /\ [][ReportNext]_vars

-----------------------------------------------------------------------------
(* C27: the variety score of the weekly report.                            *)

WeekNames(user_id) == {r.recipe_name : r \in LastWeek(user_id)}

\* C27: variety_score is the number of distinct recipe names among the week's
\* entries divided by meals_count, times 100, rounded to one decimal place,
\* when meals_count > 0 and 0 otherwise; it lies between 0 and 100, and with
\* meals_count > 0 it is 100 exactly when all the names are distinct.
C27_VarietyScore ==
    resp.op = "report" =>
        LET n == Cardinality(LastWeek(resp.user_id))
            distinct == Cardinality(WeekNames(resp.user_id))
            score == resp.body.variety_score
        IN  /\ resp.body.meals_count = n
            /\ n > 0 => RoundsTo(score, 10000 * distinct, n)
            /\ n = 0 => score = 0
            /\ 0 <= score /\ score <= 1000
            /\ n > 0 => (score = 1000 <=> distinct = n)

\* a report over three meals of two names: 66.7
C27_Witness ==
    /\ resp.op = "report"
    /\ resp.body.meals_count = 3
    /\ Cardinality(WeekNames(resp.user_id)) = 2
    /\ resp.body.variety_score = 667

\* C27 as stated: the score is the quotient itself
C27_Unrounded ==
    resp.op = "report" =>
        LET n == Cardinality(LastWeek(resp.user_id))
            distinct == Cardinality(WeekNames(resp.user_id))
        IN  /\ n > 0 => resp.body.variety_score * n = 1000 * distinct
            /\ n = 0 => resp.body.variety_score = 0

-----------------------------------------------------------------------------
(* C28: the top ingredients of the weekly report.                          *)

\* the ingredients of an entry
EntryIngredients(r) ==
    LET d == Loads(r.recipe_json)
    IN  IF "ingredients" \in DOMAIN d THEN Ingredients(d["ingredients"])
        ELSE << >>

\* how often an entry names the ingredient, whatever the case of the letters
OccurrencesIn(r, name) ==
    Cardinality({i \in DOMAIN EntryIngredients(r) :
                    LET ing == EntryIngredients(r)[i]
                    IN  ing.named /\ ing.name_str /\ Lower(ing.name) = name})

RECURSIVE Occurrences(_, _)
Occurrences(S, name) ==
    IF S = {} THEN 0
    ELSE LET r == CHOOSE x \in S : TRUE
         IN  OccurrencesIn(r, name) + Occurrences(S \ {r}, name)

\* the non-empty ingredient names of the week's entries, lower-cased
WeekIngredientNames(user_id) ==
    {name \in UNION {{Lower(EntryIngredients(r)[i].name) :
                         i \in DOMAIN EntryIngredients(r)} :
                     r \in LastWeek(user_id)} :
        /\ name # << >>
        /\ Occurrences(LastWeek(user_id), name) > 0}

\* C28: top_ingredients has at most 5 entries, in order of non-increasing
\* count; the count of a listed name is the number of its occurrences in the
\* week's entries, letter case ignored; no empty name is listed; and every
\* ingredient left out occurs no more often than the least of the listed.
C28_TopIngredients ==
    resp.op = "report" =>
        LET top == resp.body.top_ingredients
            S == LastWeek(resp.user_id)
            listed == {top[k].name : k \in DOMAIN top}
        IN  /\ Len(top) <= 5
            /\ \A k \in 1..(Len(top) - 1) : top[k].count >= top[k + 1].count
            /\ \A k \in DOMAIN top :
                  /\ top[k].name # << >>
                  /\ top[k].name = Lower(top[k].name)
                  /\ top[k].count = Occurrences(S, top[k].name)
            /\ \A j, k \in DOMAIN top : top[j].name = top[k].name => j = k
            /\ \A name \in WeekIngredientNames(resp.user_id) \ listed :
                  \A k \in DOMAIN top : Occurrences(S, name) <= top[k].count

-----------------------------------------------------------------------------
(* C29: POST /recipes/generate leaves the store as it is.                  *)

\* C29: a generate request, whether it is answered 200, 400 or with an
\* error, adds, changes and removes no user, pantry item, history entry and
\* daily suggestion; a history entry appears with a POST /recipes/save only.
C29_GenerateReadOnly ==
    [][/\ resp'.op = "generate"
          => /\ resp'.status \in {200, 400, 500}
             /\ UNCHANGED <<users, pantry, history, suggestions>>
       /\ history' # history
          => /\ resp'.op = "save"
             /\ \E row \in history' :
                   /\ history' = history \cup {row}
                   /\ row.user_id = resp'.user_id]_vars

\* a recipe was generated for a user whose history holds nothing
C29_Witness ==
    /\ resp.op = "generate"
    /\ resp.status = 200
    /\ resp.calls >= 1
    /\ "name" \in DOMAIN resp.body.recipe
    /\ \A r \in history : r.user_id # resp.user_id


-----------------------------------------------------------------------------
(* C30: a failed GET /recipes/daily caches nothing.                        *)

\* the latest step was a daily request that failed: 400 or an error
DailyFailed(r) == r.op = "daily" /\ r.status # 200

\* the answer r is today's stored suggestion of the user, not a generated one
CachedFor(r, user_id) ==
    r.op = "daily" /\ r.user_id = user_id /\ r.status = 200 /\ r.calls = 0

SuggestionsToday(user_id) == TodaySuggestions([id |-> user_id])

\* a suggestion is stored only by a request that generated a recipe and is
\* answered 200 with it; a failed request stores none
StoredOnlyWithRecipe ==
    /\ DailyFailed(resp') => suggestions' = suggestions
    /\ suggestions' # suggestions
          => /\ resp'.op = "daily"
             /\ resp'.status = 200
             /\ resp'.calls >= 1
             /\ \E row \in suggestions' :
                   /\ suggestions' = suggestions \cup {row}
                   /\ row \notin suggestions
                   /\ row.user_id = resp'.user_id
                   /\ Loads(row.recipe_json) = resp'.body.recipe

\* C30: a DailySuggestion is stored only once the generation has returned a
\* recipe: a request that fails (400 for an empty pantry, an error raised
\* while parsing) stores none, and while no other request of the user has
\* stored a suggestion for the day, the user's next GET /recipes/daily that
\* day is not answered from a stored suggestion.
C30_FailureCachesNothing ==
    [][/\ StoredOnlyWithRecipe
       /\ (/\ DailyFailed(resp)
           /\ now' = now
           /\ SuggestionsToday(resp.user_id) = {})
          => ~CachedFor(resp', resp.user_id)]_vars

\* a daily request ended with an error after a backend call, and the user
\* has no suggestion of the day
C30_Witness ==
    /\ resp.op = "daily"
    /\ resp.status = 500
    /\ resp.calls >= 1
    /\ SuggestionsToday(resp.user_id) = {}

\* C30 as stated: after a failed request the user's next GET that day is
\* never answered from a stored suggestion
C30_NextNeverCached ==
    [][/\ StoredOnlyWithRecipe
       /\ (DailyFailed(resp) /\ now' = now)
          => ~CachedFor(resp', resp.user_id)]_vars
=============================================================================
